---- MODULE Spec2Model ----
(***************************************************************************)
(* The uringpp reactor: event_loop (include/uringpp/event_loop.h), the     *)
(* per-operation bridge sqe_awaitable (include/uringpp/awaitable.h) and    *)
(* the kernel side of the io_uring queue pair that they drive.             *)
(*                                                                         *)
(* One thread runs everything.  ctx says whose code is on the stack:       *)
(*   "main"    the driver, outside poll (a coroutine the driver starts     *)
(*             runs to its first suspension as part of the driver's step)  *)
(*   "wait"    inside poll, blocked in io_uring_submit_and_wait            *)
(*   "loop"    inside poll, at the head of io_uring_for_each_cqe           *)
(*   "coro"    inside poll, in a continuation that poll resumed            *)
(*   "throw_main", "throw_coro"  std::bad_alloc is leaving get_sqe, called *)
(*             from the driver or from a resumed continuation              *)
(*   "aborted" a failed assert ended the process                           *)
(* The kernel posts completions at any time.  Dereferencing a null or      *)
(* dangling completion token is undefined behaviour: ub records whether    *)
(* the store faulted ("segv") or the store and resume() went through       *)
(* ("wild"); either way nothing more is said about the process.            *)
(***************************************************************************)
EXTENDS Integers, Sequences, FiniteSets, TLC

\* Size of the submission ring (the constructor's `entries`).
Entries == 1

\* Number of operations issued in one behaviour.
MaxOps == 3

\* nullptr, as a completion token.
Null == 0

\* Result codes the kernel posts: a negated errno, a count or descriptor.
ResCodes == {-1, 1}

\* The opcodes the primitive operation methods assert and encode.
Ops ==
  {"READV", "WRITEV", "READ", "WRITE", "READ_FIXED", "WRITE_FIXED", "FSYNC",
   "SYNC_FILE_RANGE", "RECVMSG", "SENDMSG", "RECV", "SEND", "POLL_ADD", "NOP",
   "ACCEPT", "CONNECT", "TIMEOUT", "OPENAT", "OPENAT2", "CLOSE", "STATX",
   "SPLICE", "TEE", "SHUTDOWN", "RENAMEAT", "MKDIRAT", "SYMLINKAT", "LINKAT",
   "UNLINKAT"}

\* Opcodes the running kernel does not list in its probe (the newest ones).
ProbeLacks == {"MKDIRAT", "SYMLINKAT", "LINKAT"}

OpIds == 1..MaxOps
Slots == 0..(Entries - 1)

\* enum class feature.
Features ==
  {"SINGLE_MMAP", "NODROP", "SUBMIT_STABLE", "RW_CUR_POS", "CUR_PERSONALITY",
   "FAST_POLL", "POLL_32BITS", "SQPOLL_NONFIXED", "EXT_ARG", "NATIVE_WORKERS",
   "RSRC_TAGS"}

\* The feature bits the running kernel reports in params.features.
KernelFeatures == Features \ {"RSRC_TAGS"}

\* Number of addresses getaddrinfo resolves a host name to, at most.
MaxAddrs == 2

\* What io_uring_queue_init_params returns: 0, or a negated errno.
InitCodes == {-1, 0}

\* What io_uring_get_probe_ring returns: nullptr, or a probe.
ProbePtrs == {Null, 1}

\* Number of bytes the peer sends in one behaviour.
MaxBytes == 3

\* sizeof(buf) of the echo handler, scaled down.
BufLen == 2

\* What the file of the round trip holds when it is opened.
Contents == {<<>>, <<5, 5, 5>>}

\* The byte sequences written in the round trip.
Payloads == {<<7>>, <<7, 8>>, <<8, 7>>}

\* The tasks of one behaviour.
Tasks == {1, 2}

\* Number of wrapper objects in one behaviour.
MaxObjs == 2

Objs == 1..MaxObjs

\* The descriptors the kernel hands out: 0 and two others.
Fds == {0, 1, 2}

VARIABLES
  supported_ops_,  \* event_loop::supported_ops_
  supported_features_,  \* event_loop::supported_features_
  sqes,            \* the SQE array: slot position -> [id, token (user_data)]
  sq_head,         \* SQEs the kernel has consumed (sq.khead)
  sq_tail,         \* SQEs handed out by io_uring_get_sqe (sq.sqe_tail)
  inflight,        \* operations the kernel holds: set of [id, token]
  cqw,             \* completion entries from cq.khead to cq.ktail
  cq_khead,        \* completion entries acknowledged (cq.khead)
  posted,          \* completion entries the kernel has posted (cq.ktail)
  cqe_count_,      \* event_loop::cqe_count_
  head,            \* poll's local `head`
  ctx,             \* whose code is running
  ub,              \* outcome of undefined behaviour: "none", "segv", "wild"
  ops,             \* per operation: kind, bridge state, pass bookkeeping
  nextId,          \* next operation id
  alloc,           \* forced flushes and attempts of the last get_sqe call
  dispatched,      \* completion entries the drain loop has taken
  lastSeq,         \* kernel sequence number of the last entry it took
  dlast,           \* the entry whose continuation is running, or that hit ub
  objs,            \* the wrapper objects (file, socket, dir, listener, pipe)
  closes,          \* per descriptor: close operations encoded for it
  boot,            \* what the kernel answered the constructor, and ring_
  tasks,           \* per task: mode, progress, failure, frame, owner's view
  pass,            \* the last poll call: its variant, the counts at its entry
  net,             \* the connection of the echo handler, and the handler
  disk,            \* the file of the round trip, and its coroutine
  nest,            \* poll calls below the running one, and the ring memory
  gs,              \* where a get_sqe call taken step by step stands
  kern,            \* the probe and the features word the kernel returned
  twin,            \* a second close() on a wrapper that is being closed
  made,            \* the call of a wrapper factory, and what it returned
  dial,            \* the call of socket::connect: its loop and its attempts
  heard            \* the call of listener::listen and its descriptors

vars ==
  <<supported_ops_, supported_features_, sqes, sq_head, sq_tail, inflight,
    cqw, cq_khead, posted, cqe_count_, head, ctx, ub, ops, nextId, alloc,
    dispatched, lastSeq, dlast, objs, closes, boot, tasks, pass, net, disk,
    nest, gs, kern, twin, made, dial, heard>>

\* The capability set.
caps == <<supported_ops_, supported_features_>>

\* What the constructor leaves to the reactor's methods.
built == <<supported_ops_, supported_features_, boot>>

\* What the wrapper objects add to the reactor's state.
handles == <<objs, closes>>

\* The kernel's report to the constructor, and the scenarios of the wrappers.
extras == <<kern, twin, made, dial, heard>>

\* What the scenarios around the reactor add to its state.
scenes == <<tasks, pass, net, disk, nest, gs, extras>>

\* All of it but the tasks, but the poll call, but the echo, but the round
\* trip, but the nesting of polls, but the steps of get_sqe.
besides_tasks == <<handles, pass, net, disk, nest, gs, extras>>
besides_pass == <<handles, tasks, net, disk, nest, gs, extras>>
besides_net == <<handles, tasks, pass, disk, nest, gs, extras>>
besides_disk == <<handles, tasks, pass, net, nest, gs, extras>>
besides_nest == <<handles, tasks, pass, net, disk, gs, extras>>
besides_gs == <<handles, tasks, pass, net, disk, nest, extras>>

\* All of it but the kernel's report.
besides_kern ==
  <<handles, tasks, pass, net, disk, nest, gs, twin, made, dial, heard>>

\* All of it but the wrapper objects and the second close() of one.
besides_wrappers ==
  <<tasks, pass, net, disk, nest, gs, kern, made, dial, heard>>

\* All of it but the factory call.
besides_made ==
  <<handles, tasks, pass, net, disk, nest, gs, kern, twin, dial, heard>>

\* All of it but the wrapper objects and the factory call.
besides_factory ==
  <<tasks, pass, net, disk, nest, gs, kern, twin, dial, heard>>

\* All of it but the encoded closes and the connect call.
besides_dialing ==
  <<objs, tasks, pass, net, disk, nest, gs, kern, twin, made, heard>>

\* Everything but the encoded closes and the call of listener::listen.
besides_binding ==
  <<objs, tasks, pass, net, disk, nest, gs, kern, twin, made, dial>>

\* Everything outside the reactor.
around == <<handles, scenes>>

\* The reactor's own state.
reactor ==
  <<supported_ops_, supported_features_, boot, sqes, sq_head, sq_tail, inflight,
    cqw, cq_khead, posted, cqe_count_, head, ctx, ub, ops, nextId, alloc,
    dispatched, lastSeq, dlast>>

ring == <<sqes, sq_head, sq_tail, inflight, cqw, cq_khead, posted, cqe_count_>>

NoOp == [kind |-> "none", state |-> "none", sup |-> TRUE, inpass |-> FALSE,
         fl |-> FALSE, idx |-> -1]

NoDispatch == [seq |-> 0, id |-> 0, token |-> Null, res |-> 0, got |-> 0,
               was |-> "none", kind |-> "none", same |-> FALSE, fl |-> FALSE]

NoAlloc == [flushes |-> 0, tries |-> 0]

\* Before construction: io_uring_queue_init_params has returned nothing
\* (init), io_uring_get_probe_ring has returned nothing (probe), and there is
\* no queue pair (ring_ is "none", then "open", then "exited").
NoBoot == [init |-> 0, probe |-> Null, ring_ |-> "none"]

\* A wrapper object: fd_ (fds_ for a pipe) by end, the descriptors it owns
\* (own), the end its close() coroutine is suspended on (cw) with the
\* operation it awaits (cop), the ends whose awaited close has completed
\* (closed) with the result codes (rc), and how far its destructor has come
\* (dt).  life is "none" before construction, "live",
\* "moved" once it has been moved from, "dying" inside the destructor, "dead".
NoObj == [kind |-> "none", life |-> "none", fd_ |-> <<-1, -1>>,
          own |-> <<-1, -1>>, cw |-> 0, cop |-> 0, closed |-> <<FALSE, FALSE>>,
          rc |-> <<0, 0>>, dt |-> 1]

\* A task: how it is held (mode: "driven" while its creator owns it,
\* "detached" after detach()), where its coroutine is (st: "running",
\* "suspended" on operation `on`, "throwing" while an exception leaves its
\* body, "done"), whether its promise holds a failure, whether its frame is
\* "live" or "released", and what the owner has got out of it (seen: "none",
\* "value" or "failure").
NoTask == [mode |-> "none", st |-> "none", on |-> 0, failed |-> FALSE,
           frame |-> "none", seen |-> "none"]

\* The last call of poll: which variant ("wait" for poll, "nowait" for the
\* non-blocking one), the entries dispatched (d0) and acknowledged (k0) when
\* it was entered, and whether it has returned.
NoPass == [kind |-> "none", d0 |-> 0, k0 |-> 0, done |-> FALSE]

\* The echo handler and its connection: the bytes the peer has sent (sent; the
\* i-th byte sent is i), those of them still in the socket's receive queue
\* (wire), whether the peer has shut down its sending side (shut), the bytes
\* the peer has got back (out); the handler's buf and n, where it is (pc) and
\* the operation it awaits (op).
NoNet == [sent |-> <<>>, wire |-> <<>>, shut |-> FALSE, out |-> <<>>,
          buf |-> <<>>, n |-> 0, pc |-> "none", op |-> 0]

\* The round trip: the file's bytes (file) and its file position (pos); the
\* coroutine's bytes to write (data), the arguments encoded for the operation
\* it awaits (sqe: length and offset), the values of its two awaits (wres,
\* rres), its read buffer (rbuf), where it is (pc) and the operation it
\* awaits (op).
NoDisk == [file |-> <<>>, pos |-> 0, data |-> <<>>,
           sqe |-> [len |-> 0, off |-> 0], wres |-> 0, rres |-> 0,
           rbuf |-> <<>>, pc |-> "none", op |-> 0]

\* Nested poll calls: for each poll call that is on the stack below the
\* running one, its local head and the entry whose continuation it resumed
\* (stack); and every completion entry the kernel has written to the ring
\* memory, by sequence number (log).
NoNest == [stack |-> <<>>, log |-> <<>>]

\* A get_sqe call taken statement by statement: the position in its body
\* (pc), the opcode of the operation method that called it (op) and the
\* number of io_uring_get_sqe calls it has made (tries).
NoGs == [pc |-> "idle", op |-> "NOP", tries |-> 0]

\* What the kernel returned to the constructor: the entries of the probe
\* (opcode and flags, ops_len of them) and the bits set in params.features.
NoKern == [probe |-> <<>>, features |-> {}]

\* A second close() coroutine on a wrapper whose first close() is suspended:
\* the wrapper (w, 0 for none), the end it closes (e) and the operation it
\* awaits (op).
NoTwin == [w |-> 0, e |-> 0, op |-> 0]

\* A call of a wrapper factory (file::open, dir::openat, listener::accept
\* ...): where its coroutine is (pc), the operation it awaits (op), the value
\* of its co_await (fd), whether it constructs a socket (sock), the temporary
\* it constructs (tmp) and the object the caller gets (ret).
NoMade == [pc |-> "none", op |-> 0, fd |-> 0, sock |-> FALSE, tmp |-> 0,
           ret |-> 0]

\* A call of socket::connect: where its coroutine is (pc), the number of
\* resolved addresses (n) and the one the loop is at (i), new_socket's fd_
\* (sock), the connect operation it awaits (op) and its result (rc), the
\* attempts made so far (tried: address, descriptor, result) and the
\* descriptor of the socket it returned (ret).
\* A call of listener::listen: where it is (pc), the number of resolved
\* addresses (n) and the one the loop is at (i), the descriptors ::socket
\* gave it that nothing has closed (open), the candidates tried so far
\* (tried: address, descriptor, the step that failed or "none") and the
\* descriptor of the listener it returned (ret).
NoHeard == [pc |-> "none", n |-> 0, i |-> 0, open |-> {}, tried |-> <<>>,
            ret |-> -1]

NoDial == [pc |-> "none", n |-> 0, i |-> 0, sock |-> -1, op |-> 0, rc |-> 0,
           tried |-> <<>>, ret |-> -1]

Thrown == {"throw_main", "throw_coro"}

----------------------------------------------------------------------------
\* The kernel side of the ring.

\* The SQEs the kernel reads when it consumes j entries from sq_head on.
Taken(j) == {sqes[(sq_head + i) % Entries] : i \in 0..(j - 1)}

\* Number of SQEs handed out and not yet consumed by the kernel.
Pending == sq_tail - sq_head

\* io_uring_cq_advance(&ring_, n) on the window of unacknowledged entries.
cq_advance(n) == SubSeq(cqw, n + 1, Len(cqw))

\* The flush as it would be if submitting an operation ran its continuation.
Flushed_resuming(j) ==
  [b \in OpIds |->
     IF ops[b].state = "Suspended" /\ \E e \in Taken(j) : e.id = b
       THEN [ops[b] EXCEPT !.state = "Consumed"] ELSE ops[b]]

\* The operations after a forced flush handed j SQEs to the kernel: those
\* issued in the running drain pass are marked as flushed in it.
Flushed(j) ==
  [b \in OpIds |->
     IF ops[b].inpass /\ \E e \in Taken(j) : e.id = b
       THEN [ops[b] EXCEPT !.fl = TRUE] ELSE ops[b]]

----------------------------------------------------------------------------
\* get_sqe as it would be without `cqe_count_ = 0` after the forced advance.
get_sqe_noreset(j) ==
  IF sq_tail - sq_head < Entries
    THEN [ok |-> TRUE, flushes |-> 0, tries |-> 1, pos |-> sq_tail % Entries,
          tail |-> sq_tail + 1, taken |-> 0, count |-> cqe_count_,
          acked |-> 0]
    ELSE [ok |-> sq_tail - (sq_head + j) < Entries, flushes |-> 1, tries |-> 2,
          pos |-> sq_tail % Entries,
          tail |-> IF sq_tail - (sq_head + j) < Entries
                     THEN sq_tail + 1 ELSE sq_tail,
          taken |-> j, count |-> cqe_count_, acked |-> cqe_count_]

\* get_sqe as it would be if it flushed again whenever the retry failed.
get_sqe_again(j) ==
  IF sq_tail - sq_head < Entries
    THEN [ok |-> TRUE, flushes |-> 0, tries |-> 1, pos |-> sq_tail % Entries,
          tail |-> sq_tail + 1, taken |-> 0, count |-> cqe_count_,
          acked |-> 0]
    ELSE IF sq_tail - (sq_head + j) < Entries
      THEN [ok |-> TRUE, flushes |-> 1, tries |-> 2,
            pos |-> sq_tail % Entries, tail |-> sq_tail + 1,
            taken |-> j, count |-> 0, acked |-> cqe_count_]
      ELSE [ok |-> FALSE, flushes |-> 2, tries |-> 3,
            pos |-> sq_tail % Entries, tail |-> sq_tail,
            taken |-> j, count |-> 0, acked |-> cqe_count_]

\* get_sqe as it would be if the failing path kept the slot it could not use.
get_sqe_leak(j) ==
  IF sq_tail - sq_head < Entries
    THEN [ok |-> TRUE, flushes |-> 0, tries |-> 1, pos |-> sq_tail % Entries,
          tail |-> sq_tail + 1, taken |-> 0, count |-> cqe_count_,
          acked |-> 0]
    ELSE [ok |-> sq_tail - (sq_head + j) < Entries, flushes |-> 1, tries |-> 2,
          pos |-> sq_tail % Entries, tail |-> sq_tail + 1,
          taken |-> j, count |-> 0, acked |-> cqe_count_]

\* get_sqe as it would be if it took the next position without asking
\* whether the kernel has consumed what is there.
get_sqe_greedy(j) ==
  [ok |-> TRUE, flushes |-> 0, tries |-> 1, pos |-> sq_tail % Entries,
   tail |-> sq_tail + 1, taken |-> 0, count |-> cqe_count_, acked |-> 0]

\* get_sqe as it would be if the forced advance acknowledged every entry in
\* the completion queue.
get_sqe_advancing_all(j) ==
  IF sq_tail - sq_head < Entries
    THEN [ok |-> TRUE, flushes |-> 0, tries |-> 1, pos |-> sq_tail % Entries,
          tail |-> sq_tail + 1, taken |-> 0, count |-> cqe_count_,
          acked |-> 0]
    ELSE [ok |-> sq_tail - (sq_head + j) < Entries, flushes |-> 1, tries |-> 2,
          pos |-> sq_tail % Entries,
          tail |-> IF sq_tail - (sq_head + j) < Entries
                     THEN sq_tail + 1 ELSE sq_tail,
          taken |-> j, count |-> 0, acked |-> Len(cqw)]

\* event_loop::get_sqe.  j is the number of SQEs the kernel accepts when the
\* forced flush calls io_uring_submit (all of them, unless io_uring_enter fails
\* or stops early).
get_sqe(j) ==
  IF sq_tail - sq_head < Entries
    THEN [ok |-> TRUE, flushes |-> 0, tries |-> 1, pos |-> sq_tail % Entries,
          tail |-> sq_tail + 1, taken |-> 0, count |-> cqe_count_,
          acked |-> 0]
    ELSE [ok |-> sq_tail - (sq_head + j) < Entries, flushes |-> 1, tries |-> 2,
          pos |-> sq_tail % Entries,
          tail |-> IF sq_tail - (sq_head + j) < Entries
                     THEN sq_tail + 1 ELSE sq_tail,
          taken |-> j, count |-> 0, acked |-> cqe_count_]

\* sqe_awaitable::await_resume.
await_resume(rc) == rc

\* The store as it would be if it kept only non-negative results.
poll_store_clamped(res) == IF res < 0 THEN 0 ELSE res

\* poll's store `awaitable->rc_ = cqe->res`.
poll_store(res) == res

\* The loop as it would be if it took the newest entry first.
NextCqe_newest == cqw[Len(cqw)]

\* io_uring_for_each_cqe: the entry at the local head.
NextCqe == cqw[head - cq_khead + 1]

\* The check as it is with the assertion compiled out.
supports_unchecked(op) == TRUE

\* assert(supported_ops_.test(IORING_OP_...)).
supports(op) == op \in supported_ops_

\* check_nerrno: whether it throws.
check_nerrno(nerrno) == nerrno < 0

\* check_ptr as it would be if it let every pointer pass.
check_ptr_lenient(ptr) == FALSE

\* check_ptr: whether it throws.
check_ptr(ptr) == ptr = Null

\* probe_ring::supported_ops: the opcodes the probe flags as supported.
supported_ops == Ops \ ProbeLacks

\* check_feature on the set built so far.
check_feature(set, features, efeat) ==
  IF efeat \in features THEN set \cup {efeat} ELSE set

\* init_supported_features: check_feature for each of the eleven features.
RECURSIVE init_supported_features(_, _, _)
init_supported_features(set, features, todo) ==
  IF todo = {} THEN set
  ELSE LET f == CHOOSE x \in todo : TRUE
       IN init_supported_features(check_feature(set, features, f), features,
                                  todo \ {f})

\* await_ready as it would be if it reported a bridge ready at once.
await_ready_now == TRUE

\* sqe_awaitable::await_ready.
await_ready == FALSE

----------------------------------------------------------------------------
Init ==
  /\ supported_ops_ = supported_ops
  /\ supported_features_ = init_supported_features({}, KernelFeatures, Features)
  /\ boot = [init |-> 0, probe |-> 1, ring_ |-> "open"]
  /\ objs = [w \in Objs |-> NoObj]
  /\ closes = [d \in Fds |-> 0]
  /\ kern = NoKern
  /\ heard = NoHeard
  /\ dial = NoDial
  /\ made = NoMade
  /\ twin = NoTwin
  /\ gs = NoGs
  /\ nest = NoNest
  /\ disk = NoDisk
  /\ net = NoNet
  /\ pass = NoPass
  /\ tasks = [t \in Tasks |-> NoTask]
  /\ sqes = [p \in Slots |-> [id |-> 0, token |-> Null]]
  /\ sq_head = 0
  /\ sq_tail = 0
  /\ inflight = {}
  /\ cqw = <<>>
  /\ cq_khead = 0
  /\ posted = 0
  /\ cqe_count_ = 0
  /\ head = 0
  /\ ctx = "main"
  /\ ub = "none"
  /\ ops = [b \in OpIds |-> NoOp]
  /\ nextId = 1
  /\ alloc = NoAlloc
  /\ dispatched = 0
  /\ lastSeq = 0
  /\ dlast = NoDispatch

Running == ub = "none" /\ ctx \in {"main", "coro"}

----------------------------------------------------------------------------
\* Construction.  ctx is "new" before the constructor runs, "ctor" between
\* its two kernel calls and "ctor_threw" once it has thrown: the caller holds
\* the exception and no event_loop object.

InitC ==
  /\ supported_ops_ = {}
  /\ supported_features_ = {}
  /\ boot = NoBoot
  /\ objs = [w \in Objs |-> NoObj]
  /\ closes = [d \in Fds |-> 0]
  /\ kern = NoKern
  /\ heard = NoHeard
  /\ dial = NoDial
  /\ made = NoMade
  /\ twin = NoTwin
  /\ gs = NoGs
  /\ nest = NoNest
  /\ disk = NoDisk
  /\ net = NoNet
  /\ pass = NoPass
  /\ tasks = [t \in Tasks |-> NoTask]
  /\ sqes = [p \in Slots |-> [id |-> 0, token |-> Null]]
  /\ sq_head = 0
  /\ sq_tail = 0
  /\ inflight = {}
  /\ cqw = <<>>
  /\ cq_khead = 0
  /\ posted = 0
  /\ cqe_count_ = 0
  /\ head = 0
  /\ ctx = "new"
  /\ ub = "none"
  /\ ops = [b \in OpIds |-> NoOp]
  /\ nextId = 1
  /\ alloc = NoAlloc
  /\ dispatched = 0
  /\ lastSeq = 0
  /\ dlast = NoDispatch

\* The constructor up to check_nerrno(io_uring_queue_init_params(...)).
ctor_init(rc) ==
  /\ ctx = "new"
  /\ cqe_count_' = 0
  /\ boot' = [boot EXCEPT !.init = rc,
                          !.ring_ = IF rc < 0 THEN "none" ELSE "open"]
  /\ ctx' = IF check_nerrno(rc) THEN "ctor_threw" ELSE "ctor"
  /\ UNCHANGED <<caps, sqes, sq_head, sq_tail, inflight, cqw, cq_khead, posted,
                 head, ub, ops, nextId, alloc, dispatched, lastSeq, dlast>>

\* The rest of the constructor: the probe inside try/catch, then
\* init_supported_features.
ctor_probe(ptr) ==
  /\ ctx = "ctor"
  /\ IF check_ptr(ptr)
       THEN /\ boot' = [boot EXCEPT !.probe = ptr, !.ring_ = "exited"]
            /\ ctx' = "ctor_threw"
            /\ UNCHANGED caps
       ELSE /\ boot' = [boot EXCEPT !.probe = ptr]
            /\ supported_ops_' = supported_ops
            /\ supported_features_' =
                 init_supported_features(supported_features_, KernelFeatures,
                                         Features)
            /\ ctx' = "main"
  /\ UNCHANGED <<ring, head, ub, ops, nextId, alloc, dispatched, lastSeq,
                 dlast>>

\* What a call of get_sqe with outcome g does to the ring, and the encoding of
\* operation op into the slot it got; token is the user_data the caller leaves
\* in the slot.
Acquire(g, kind, token, op) ==
  /\ alloc' = [flushes |-> g.flushes, tries |-> g.tries]
  /\ inflight' = inflight \cup Taken(g.taken)
  /\ sq_head' = sq_head + g.taken
  /\ sq_tail' = g.tail
  /\ cq_khead' = cq_khead + g.acked
  /\ cqw' = cq_advance(g.acked)
  /\ cqe_count_' = g.count
  /\ IF g.ok
       THEN /\ sqes' = [sqes EXCEPT ![g.pos] = [id |-> nextId, token |-> token]]
            /\ ops' = [Flushed(g.taken) EXCEPT ![nextId] =
                         [kind |-> kind,
                          state |-> IF kind = "call" THEN "Created"
                                    ELSE IF token = Null THEN "none"
                                    ELSE "Suspended",
                          sup |-> (op \in supported_ops_),
                          inpass |-> (ctx = "coro"), fl |-> FALSE,
                          idx |-> sq_tail]]
            /\ nextId' = nextId + 1
            /\ UNCHANGED ctx
       ELSE /\ ops' = Flushed(g.taken)
            /\ ctx' = IF ctx = "main" THEN "throw_main" ELSE "throw_coro"
            /\ UNCHANGED <<sqes, nextId>>

\* The operation method as it would be if it recorded an opcode it found
\* missing as supported and went on, instead of asserting.
CoAwait_learning(op, j) ==
  /\ Running
  /\ nextId <= MaxOps
  /\ IF ~supports(op)
       THEN /\ supported_ops_' = supported_ops_ \cup {op}
            /\ UNCHANGED <<ctx, ring, ops, nextId, alloc>>
       ELSE /\ j \in 0..(IF get_sqe(j).flushes = 0 THEN 0 ELSE Pending)
            /\ Acquire(get_sqe(j), "await", nextId, op)
            /\ UNCHANGED <<supported_ops_, posted>>
  /\ UNCHANGED <<supported_features_, boot, head, ub, dispatched, lastSeq,
                 dlast>>

\* co_await loop.<op>(...): the primitive operation method (assert, get_sqe,
\* io_uring_prep_*, await_sqe), then the await on the bridge it returns:
\* await_ready is false and await_suspend records the continuation and writes
\* the bridge's address into the slot.
CoAwait(op, j) ==
  /\ Running
  /\ nextId <= MaxOps
  /\ IF ~supports(op)
       THEN /\ ctx' = "aborted"
            /\ UNCHANGED <<ring, ops, nextId, alloc>>
       ELSE /\ j \in 0..(IF get_sqe(j).flushes = 0 THEN 0 ELSE Pending)
            /\ Acquire(get_sqe(j), "await", nextId, op)
            /\ UNCHANGED posted
  /\ UNCHANGED <<built, head, ub, dispatched, lastSeq, dlast>>

\* event_loop::close_detach, called by the wrappers' destructors: a close
\* submitted with a null completion token; the caller goes on.
close_detach(j) ==
  /\ Running
  /\ nextId <= MaxOps
  /\ IF ~supports("CLOSE")
       THEN /\ ctx' = "aborted"
            /\ UNCHANGED <<ring, ops, nextId, alloc>>
       ELSE /\ j \in 0..(IF get_sqe(j).flushes = 0 THEN 0 ELSE Pending)
            /\ Acquire(get_sqe(j), "detach", Null, "CLOSE")
            /\ UNCHANGED posted
  /\ UNCHANGED <<built, head, ub, dispatched, lastSeq, dlast>>

\* std::bad_alloc leaves the call: the coroutine's promise (or the caller)
\* takes it and the code that issued the operation goes on or ends.
Unwind ==
  /\ ub = "none"
  /\ ctx \in Thrown
  /\ ctx' = IF ctx = "throw_main" THEN "main" ELSE "coro"
  /\ UNCHANGED <<built, ring, head, ub, ops, nextId, alloc,
                 dispatched, lastSeq, dlast>>

\* A task is dropped while its coroutine is suspended on bridge b: the frame,
\* and the bridge in it, are destroyed; the operation is not withdrawn.
DestroyFrame(b) ==
  /\ Running
  /\ ops[b].state = "Suspended"
  /\ ops' = [ops EXCEPT ![b].state = "Destroyed"]
  /\ UNCHANGED <<built, ring, head, ctx, ub, nextId, alloc,
                 dispatched, lastSeq, dlast>>

\* The kernel completes an operation it holds and posts a completion entry.
Complete(x, res) ==
  /\ ub = "none"
  /\ ctx # "aborted"
  /\ x \in inflight
  /\ inflight' = inflight \ {x}
  /\ posted' = posted + 1
  /\ cqw' = Append(cqw, [seq |-> posted + 1, id |-> x.id, token |-> x.token,
                         res |-> res])
  /\ UNCHANGED <<built, sqes, sq_head, sq_tail, cq_khead, cqe_count_,
                 head, ctx, ub, ops, nextId, alloc, dispatched, lastSeq, dlast>>

\* poll as it would be if it waited without submitting.
PollEnter_waiting(j) ==
  /\ ub = "none"
  /\ ctx = "main"
  /\ j \in 0..Pending
  /\ ctx' = "wait"
  /\ UNCHANGED <<built, ring, head, ub, ops, nextId, alloc, dispatched, lastSeq,
                 dlast>>

\* poll as it would be if the entries it submitted stayed pending.
PollEnter_resubmitting(j) ==
  /\ ub = "none"
  /\ ctx = "main"
  /\ j \in 0..Pending
  /\ inflight' = inflight \cup Taken(j)
  /\ ctx' = "wait"
  /\ UNCHANGED <<built, sqes, sq_head, sq_tail, cqw, cq_khead, posted,
                 cqe_count_, head, ub, ops, nextId, alloc, dispatched, lastSeq,
                 dlast>>

\* poll, first statement: io_uring_submit_and_wait(&ring_, 1) hands the
\* pending SQEs to the kernel (j of them) and blocks.
PollEnter(j) ==
  /\ ub = "none"
  /\ ctx = "main"
  /\ j \in 0..Pending
  /\ inflight' = inflight \cup Taken(j)
  /\ sq_head' = sq_head + j
  /\ ctx' = "wait"
  /\ UNCHANGED <<built, sqes, sq_tail, cqw, cq_khead, posted,
                 cqe_count_, head, ub, ops, nextId, alloc, dispatched, lastSeq,
                 dlast>>

\* io_uring_submit_and_wait returns: a completion entry is available, or the
\* wait was interrupted (the return value is not looked at).
PollWake(intr) ==
  /\ ub = "none"
  /\ ctx = "wait"
  /\ intr \/ Len(cqw) > 0
  /\ head' = cq_khead
  /\ ctx' = "loop"
  /\ UNCHANGED <<built, ring, ub, ops, nextId, alloc, dispatched,
                 lastSeq, dlast>>

\* One iteration of io_uring_for_each_cqe up to the return of resume().
DrainStep(outcome) ==
  /\ ub = "none"
  /\ ctx = "loop"
  /\ head # cq_khead + Len(cqw)
  /\ LET e == NextCqe
         t == e.token
         was == IF t = Null THEN "none" ELSE ops[t].state
         good == t # Null /\ was = "Suspended"
     IN
     /\ cqe_count_' = cqe_count_ + 1
     /\ dispatched' = dispatched + 1
     /\ lastSeq' = e.seq
     /\ dlast' = [seq |-> e.seq, id |-> e.id, token |-> t, res |-> e.res,
                  got |-> IF good THEN await_resume(poll_store(e.res)) ELSE 0,
                  was |-> was, kind |-> ops[e.id].kind,
                  same |-> ops[e.id].inpass, fl |-> ops[e.id].fl]
     /\ IF good
          THEN /\ outcome = "none"
               /\ ops' = [ops EXCEPT ![t].state = "Consumed"]
               /\ ctx' = "coro"
               /\ UNCHANGED ub
          ELSE /\ outcome \in {"segv", "wild"}
               /\ ub' = outcome
               /\ UNCHANGED <<ops, ctx>>
  /\ UNCHANGED <<built, sqes, sq_head, sq_tail, inflight, cqw,
                 cq_khead, posted, head, nextId, alloc>>

\* Return as it would be if the loop submitted the queue after every entry.
Return_submitting ==
  /\ ub = "none"
  /\ ctx = "coro"
  /\ ctx' = "loop"
  /\ head' = head + 1
  /\ dlast' = NoDispatch
  /\ inflight' = inflight \cup Taken(Pending)
  /\ sq_head' = sq_tail
  /\ UNCHANGED <<built, sqes, sq_tail, cqw, cq_khead, posted,
                 cqe_count_, ub, ops, nextId, alloc, dispatched, lastSeq>>

\* The resumed continuation suspends again or ends: resume() returns and the
\* for statement steps to the next entry.
Return ==
  /\ ub = "none"
  /\ ctx = "coro"
  /\ ctx' = "loop"
  /\ head' = head + 1
  /\ dlast' = NoDispatch
  /\ UNCHANGED <<built, ring, ub, ops, nextId, alloc, dispatched,
                 lastSeq>>

\* poll, after the loop: io_uring_cq_advance(&ring_, cqe_count_) and reset.
PollEnd ==
  /\ ub = "none"
  /\ ctx = "loop"
  /\ head = cq_khead + Len(cqw)
  /\ cq_khead' = cq_khead + cqe_count_
  /\ cqw' = cq_advance(cqe_count_)
  /\ cqe_count_' = 0
  /\ ctx' = "main"
  /\ head' = 0
  /\ ops' = [b \in OpIds |-> [ops[b] EXCEPT !.inpass = FALSE, !.fl = FALSE]]
  /\ UNCHANGED <<built, sqes, sq_head, sq_tail, inflight, posted,
                 ub, nextId, alloc, dispatched, lastSeq, dlast>>

----------------------------------------------------------------------------
\* The bridge step by step: the primitive operation method and the await on
\* the bridge it returned are two steps, and so are the store and the
\* resume() of poll's loop.

\* loop.<op>(...): assert, get_sqe, io_uring_prep_*, await_sqe.  The slot's
\* user_data is what io_uring_prep_* leaves there: 0, or (stale) what the
\* slot held before, depending on the liburing at hand.
OpCall(op, j, stale) ==
  /\ Running
  /\ nextId <= MaxOps
  /\ IF ~supports(op)
       THEN /\ ctx' = "aborted"
            /\ UNCHANGED <<ring, ops, nextId, alloc>>
       ELSE /\ j \in 0..(IF get_sqe(j).flushes = 0 THEN 0 ELSE Pending)
            /\ Acquire(get_sqe(j), "call",
                       IF stale THEN sqes[get_sqe(j).pos].token ELSE Null, op)
            /\ UNCHANGED posted
  /\ UNCHANGED <<built, head, ub, dispatched, lastSeq, dlast>>

\* co_await on bridge b: await_ready, then await_suspend records the
\* continuation and writes the bridge's address through sqe_.
Await(b) ==
  /\ Running
  /\ ops[b].state = "Created"
  /\ IF await_ready
       THEN /\ ops' = [ops EXCEPT ![b].state = "Consumed"]
            /\ UNCHANGED sqes
       ELSE /\ ops' = [ops EXCEPT ![b].state = "Suspended"]
            /\ sqes' = [sqes EXCEPT ![ops[b].idx % Entries].token = b]
  /\ UNCHANGED <<built, sq_head, sq_tail, inflight, cqw, cq_khead, posted,
                 cqe_count_, head, ctx, ub, nextId, alloc, dispatched, lastSeq,
                 dlast>>

\* One iteration of poll's loop up to `awaitable->rc_ = cqe->res`.
Store(outcome) ==
  /\ ub = "none"
  /\ ctx = "loop"
  /\ head # cq_khead + Len(cqw)
  /\ LET e == NextCqe
         t == e.token
         was == IF t = Null THEN "none" ELSE ops[t].state
         good == t # Null /\ was = "Suspended"
     IN
     /\ cqe_count_' = cqe_count_ + 1
     /\ dispatched' = dispatched + 1
     /\ lastSeq' = e.seq
     /\ dlast' = [seq |-> e.seq, id |-> e.id, token |-> t, res |-> e.res,
                  got |-> 0, was |-> was, kind |-> ops[e.id].kind,
                  same |-> ops[e.id].inpass, fl |-> ops[e.id].fl]
     /\ IF good
          THEN /\ outcome = "none"
               /\ ops' = [ops EXCEPT ![t].state = "Completed"]
               /\ ctx' = "store"
               /\ UNCHANGED ub
          ELSE /\ outcome \in {"segv", "wild"}
               /\ ub' = outcome
               /\ UNCHANGED <<ops, ctx>>
  /\ UNCHANGED <<built, sqes, sq_head, sq_tail, inflight, cqw, cq_khead, posted,
                 head, nextId, alloc>>

\* `awaitable->h_.resume()`: the coroutine goes on in await_resume.
Resume ==
  /\ ub = "none"
  /\ ctx = "store"
  /\ ops' = [ops EXCEPT ![dlast.token].state = "Consumed"]
  /\ dlast' = [dlast EXCEPT !.got = await_resume(poll_store(dlast.res))]
  /\ ctx' = "coro"
  /\ UNCHANGED <<built, ring, head, ub, nextId, alloc, dispatched, lastSeq>>

NextB ==
  \/ \E op \in Ops, j \in 0..Entries, stale \in BOOLEAN :
       OpCall(op, j, stale) /\ UNCHANGED around
  \/ \E b \in OpIds : Await(b) /\ UNCHANGED around
  \/ Unwind /\ UNCHANGED around
  \/ \E x \in inflight, res \in ResCodes :
       Complete(x, res) /\ UNCHANGED around
  \/ \E j \in 0..Entries : PollEnter(j) /\ UNCHANGED around
  \/ \E intr \in BOOLEAN : PollWake(intr) /\ UNCHANGED around
  \/ \E outcome \in {"none", "segv", "wild"} :
       Store(outcome) /\ UNCHANGED around
  \/ Resume /\ UNCHANGED around
  \/ Return /\ UNCHANGED around
  \/ PollEnd /\ UNCHANGED around

SpecB == Init /\ [][NextB]_vars

----------------------------------------------------------------------------
\* The wrapper objects.  file, socket, dir and listener hold one descriptor
\* and share the code of close(), the destructor and the move constructor; a
\* pipe holds two.

\* The ends of wrapper w: fd_ of a file, fds_[0] and fds_[1] of a pipe.
Ends(w) == IF objs[w].kind = "pipe" THEN {1, 2} ELSE {1}

\* The descriptors some wrapper owns or owned: the kernel hands out others.
Used == {objs[w].own[e] : w \in Objs, e \in {1, 2}}

\* No destructor and no close() body is in the middle of its run.
Calm == \A w \in Objs : objs[w].life # "dying" /\ objs[w].cw # 3

\* The test `fd_ > 0` that close() and the destructors make.
valid(fd) == fd > 0

\* The first end that pipe::close (file::close) finds open from end e on.
FirstOpen(w, e) ==
  IF e \in Ends(w) /\ valid(objs[w].fd_[e]) THEN e
  ELSE IF e + 1 \in Ends(w) /\ valid(objs[w].fd_[e + 1]) THEN e + 1
  ELSE 0

\* close() as it would be without `fd_ = -1` after the awaited close.
after_close_kept(fd) == fd

\* `fd_ = -1` after the awaited close.
after_close(fd) == -1

\* The move constructor as it would be if it copied the descriptor.
moved_from_kept(fd) == fd

\* std::exchange(other.fd_, -1): what the move constructor leaves behind.
moved_from(fd) == -1

\* file(loop, fd), dir(loop, fd), listener(loop, fd), socket(loop, ...): a
\* descriptor the kernel has just handed out (the result of openat, accept
\* or ::socket) gets its wrapper.
file_ctor(w, d) ==
  /\ Running /\ Calm
  /\ objs[w].life = "none"
  /\ d \in Fds \ Used
  /\ objs' = [objs EXCEPT ![w] = [NoObj EXCEPT !.kind = "file", !.life = "live",
                                              !.fd_ = <<d, -1>>,
                                              !.own = <<d, -1>>]]
  /\ UNCHANGED <<reactor, closes>>

\* pipe(loop): ::pipe(fds_) and the two asserts.
pipe_ctor(w, d0, d1) ==
  /\ Running /\ Calm
  /\ objs[w].life = "none"
  /\ d0 \in Fds \ Used /\ d1 \in Fds \ Used /\ d0 # d1
  /\ IF d0 > 0 /\ d1 > 0
       THEN /\ objs' = [objs EXCEPT ![w] =
                         [NoObj EXCEPT !.kind = "pipe", !.life = "live",
                                       !.fd_ = <<d0, d1>>, !.own = <<d0, d1>>]]
            /\ UNCHANGED ctx
       ELSE /\ ctx' = "aborted"
            /\ UNCHANGED objs
  /\ UNCHANGED <<built, ring, head, ub, ops, nextId, alloc, dispatched, lastSeq,
                 dlast, closes>>

\* The move constructors: v is constructed from w.
move_ctor(w, v) ==
  /\ Running /\ Calm
  /\ objs[w].life = "live" /\ objs[w].cw = 0
  /\ objs[v].life = "none"
  /\ objs' = [objs EXCEPT
       ![v] = [NoObj EXCEPT !.kind = objs[w].kind, !.life = "live",
                            !.fd_ = objs[w].fd_,
                            !.own = [e \in {1, 2} |->
                                      IF objs[w].fd_[e] = objs[w].own[e]
                                        THEN objs[w].own[e] ELSE -1]],
       ![w] = [objs[w] EXCEPT !.life = "moved",
                 !.fd_ = [e \in {1, 2} |-> moved_from(objs[w].fd_[e])],
                 !.own = [e \in {1, 2} |->
                           IF objs[w].fd_[e] = objs[w].own[e]
                             THEN -1 ELSE objs[w].own[e]]]]
  /\ UNCHANGED <<reactor, closes>>

\* close() up to its first suspension: `if (fd_ > 0) co_await loop_->close(fd_)`
\* from end e on.  Nothing is open: the body runs to its end at once.
close_from(w, e, j) ==
  IF FirstOpen(w, e) = 0
    THEN /\ objs' = [objs EXCEPT ![w].cw = 0]
         /\ UNCHANGED <<reactor, closes>>
    ELSE /\ CoAwait("CLOSE", j)
         /\ IF nextId' = nextId + 1
              THEN /\ objs' = [objs EXCEPT ![w].cw = FirstOpen(w, e),
                                           ![w].cop = nextId]
                   /\ closes' = [closes EXCEPT
                        ![objs[w].fd_[FirstOpen(w, e)]] = @ + 1]
              ELSE /\ objs' = [objs EXCEPT ![w].cw = 0]
                   /\ UNCHANGED closes

\* file::close, socket::close, dir::close, listener::close, pipe::close.
wrapper_close(w, j) ==
  /\ Running /\ Calm
  /\ objs[w].life \in {"live", "moved"} /\ objs[w].cw = 0
  /\ close_from(w, 1, j)

\* pipe::close after its first close has been resumed: the second end.
wrapper_close_next(w, j) ==
  /\ Running
  /\ objs[w].cw = 3
  /\ close_from(w, 2, j)

\* One iteration of poll's loop, and the body of close() that it resumes up
\* to `fd_ = -1`.
close_resumed(outcome) ==
  /\ DrainStep(outcome)
  /\ LET t == NextCqe.token
     IN IF ctx' = "coro" /\ \E w \in Objs : objs[w].cw \in {1, 2}
                                            /\ objs[w].cop = t
          THEN LET w == CHOOSE v \in Objs : objs[v].cw \in {1, 2}
                                            /\ objs[v].cop = t
                   e == objs[w].cw
               IN objs' = [objs EXCEPT
                    ![w].fd_[e] = after_close(objs[w].fd_[e]),
                    ![w].closed[e] = TRUE,
                    ![w].rc[e] = await_resume(poll_store(NextCqe.res)),
                    ![w].cop = 0,
                    ![w].cw = IF e = 1 /\ objs[w].kind = "pipe" THEN 3 ELSE 0]
          ELSE UNCHANGED objs
  /\ UNCHANGED closes

\* ~file, ~socket, ~dir, ~listener, ~pipe: one end per step.  An exception
\* that leaves close_detach ends the process inside the destructor.
wrapper_dtor(w, j) ==
  /\ Running
  /\ objs[w].cw = 0
  /\ \/ objs[w].life = "dying"
     \/ objs[w].life \in {"live", "moved"} /\ Calm
  /\ LET e == objs[w].dt
         done == [objs EXCEPT ![w].dt = e + 1,
                              ![w].life = IF e + 1 \in Ends(w) THEN "dying"
                                                               ELSE "dead"]
     IN IF valid(objs[w].fd_[e])
          THEN /\ close_detach(j)
               /\ IF nextId' = nextId + 1
                    THEN /\ objs' = done
                         /\ closes' = [closes EXCEPT ![objs[w].fd_[e]] = @ + 1]
                    ELSE /\ objs' = [objs EXCEPT ![w].life = "dying"]
                         /\ UNCHANGED closes
          ELSE /\ objs' = done
               /\ UNCHANGED <<reactor, closes>>

\* The wrappers over the reactor: the only operations are their closes.
NextW ==
  \/ \E w \in Objs, d \in Fds :
       file_ctor(w, d) /\ UNCHANGED scenes
  \/ \E w \in Objs, d0 \in Fds, d1 \in Fds :
       pipe_ctor(w, d0, d1) /\ UNCHANGED scenes
  \/ \E w \in Objs, v \in Objs :
       move_ctor(w, v) /\ UNCHANGED scenes
  \/ \E w \in Objs, j \in 0..Entries :
       wrapper_close(w, j) /\ UNCHANGED scenes
  \/ \E w \in Objs, j \in 0..Entries :
       wrapper_close_next(w, j) /\ UNCHANGED scenes
  \/ \E w \in Objs, j \in 0..Entries :
       wrapper_dtor(w, j) /\ UNCHANGED scenes
  \/ \E outcome \in {"none", "segv", "wild"} :
       close_resumed(outcome) /\ UNCHANGED scenes
  \/ Calm /\ Unwind /\ UNCHANGED around
  \/ \E x \in inflight, res \in ResCodes :
       Complete(x, res) /\ UNCHANGED around
  \/ \E j \in 0..Entries : Calm /\ PollEnter(j) /\ UNCHANGED around
  \/ \E intr \in BOOLEAN : PollWake(intr) /\ UNCHANGED around
  \/ Calm /\ Return /\ UNCHANGED around
  \/ PollEnd /\ UNCHANGED around

SpecW == Init /\ [][NextW]_vars

\* The reactor on its own: coroutines issue operations, the driver polls.
Next ==
  \/ \E op \in Ops, j \in 0..Entries : CoAwait(op, j) /\ UNCHANGED around
  \/ \E j \in 0..Entries : close_detach(j) /\ UNCHANGED around
  \/ Unwind /\ UNCHANGED around
  \/ \E b \in OpIds : DestroyFrame(b) /\ UNCHANGED around
  \/ \E x \in inflight, res \in ResCodes :
       Complete(x, res) /\ UNCHANGED around
  \/ \E j \in 0..Entries : PollEnter(j) /\ UNCHANGED around
  \/ \E intr \in BOOLEAN : PollWake(intr) /\ UNCHANGED around
  \/ \E outcome \in {"none", "segv", "wild"} :
       DrainStep(outcome) /\ UNCHANGED around
  \/ Return /\ UNCHANGED around
  \/ PollEnd /\ UNCHANGED around

Spec == Init /\ [][Next]_vars

\* A driven task: every operation is awaited by a coroutine whose frame
\* lives on, and the owner polls.
NextLive ==
  \/ \E op \in Ops, j \in 0..Entries : CoAwait(op, j) /\ UNCHANGED around
  \/ Unwind /\ UNCHANGED around
  \/ \E x \in inflight, res \in ResCodes :
       Complete(x, res) /\ UNCHANGED around
  \/ \E j \in 0..Entries : PollEnter(j) /\ UNCHANGED around
  \/ \E intr \in BOOLEAN : PollWake(intr) /\ UNCHANGED around
  \/ DrainStep("none") /\ UNCHANGED around
  \/ Return /\ UNCHANGED around
  \/ PollEnd /\ UNCHANGED around

\* The owner keeps calling poll and io_uring_submit_and_wait keeps taking
\* what is pending; the kernel completes every operation it holds; a resumed
\* continuation, which issues finitely many operations, reaches its next
\* suspension or its end; what else is on the stack (the wait, the loop, an
\* exception on its way out) goes on.
Fairness ==
  /\ SF_vars(PollEnter(Pending) /\ UNCHANGED around)
  /\ \A b \in OpIds :
       WF_vars(\E x \in inflight, res \in ResCodes :
                 x.id = b /\ Complete(x, res) /\ UNCHANGED around)
  /\ WF_vars(\E intr \in BOOLEAN : PollWake(intr) /\ UNCHANGED around)
  /\ WF_vars(DrainStep("none") /\ UNCHANGED around)
  /\ SF_vars(Return /\ UNCHANGED around)
  /\ WF_vars(PollEnd /\ UNCHANGED around)
  /\ WF_vars(Unwind /\ UNCHANGED around)

SpecLive == Init /\ [][NextLive]_vars /\ Fairness

\* The reactor from before its construction on.
NextC ==
  \/ \E rc \in InitCodes : ctor_init(rc) /\ UNCHANGED around
  \/ \E ptr \in ProbePtrs : ctor_probe(ptr) /\ UNCHANGED around
  \/ Next

SpecC == InitC /\ [][NextC]_vars

----------------------------------------------------------------------------
\* Tasks.  A task's coroutine starts running when the task is created, is
\* suspended at each operation it awaits and is resumed by poll; one runs at a
\* time.

\* The task whose coroutine is on the stack, or 0.
Current ==
  IF \E t \in Tasks : tasks[t].st \in {"running", "throwing"}
    THEN CHOOSE t \in Tasks : tasks[t].st \in {"running", "throwing"}
    ELSE 0

\* The coroutine as it would end if a detached task kept the failure for
\* whoever looks at it later.
ended_keeping(task, failed) ==
  [task EXCEPT !.st = "done", !.on = 0, !.failed = failed,
               !.frame = IF task.mode = "detached" THEN "released" ELSE "live",
               !.seen = IF task.mode = "detached" /\ failed THEN "failure"
                        ELSE task.seen]

\* The coroutine reaches its final suspension, with a value or with the
\* failure its promise caught: a detached task releases its frame.
ended(task, failed) ==
  [task EXCEPT !.st = "done", !.on = 0, !.failed = failed,
               !.frame = IF task.mode = "detached" THEN "released" ELSE "live"]

\* What the owner gets from a finished task: the value, or the failure
\* rethrown.
result(task) == IF task.failed THEN "failure" ELSE "value"

\* The driver calls a coroutine function: the task is created and its body
\* starts to run.
task_start(t) ==
  /\ ub = "none" /\ ctx = "main"
  /\ Current = 0
  /\ tasks[t].mode = "none"
  /\ tasks' = [tasks EXCEPT ![t] = [NoTask EXCEPT !.mode = "driven",
                                                  !.st = "running",
                                                  !.frame = "live"]]
  /\ UNCHANGED <<reactor, besides_tasks>>

\* The running task awaits an operation: it is suspended on it, or the
\* operation method throws into its body.
task_await(t, op, j) ==
  /\ t = Current
  /\ tasks[t].st = "running"
  /\ CoAwait(op, j)
  /\ tasks' = [tasks EXCEPT ![t] =
                 IF nextId' = nextId + 1
                   THEN [tasks[t] EXCEPT !.st = "suspended", !.on = nextId]
                 ELSE IF ctx' \in Thrown
                   THEN [tasks[t] EXCEPT !.st = "throwing"]
                 ELSE tasks[t]]
  /\ UNCHANGED besides_tasks

\* The exception leaves the coroutine body: the promise catches it and the
\* coroutine ends.
task_unhandled(t) ==
  /\ t = Current
  /\ tasks[t].st = "throwing"
  /\ Unwind
  /\ tasks' = [tasks EXCEPT ![t] = ended(tasks[t], TRUE)]
  /\ UNCHANGED besides_tasks

\* The running task's body raises a failure of its own (a wrapper's check of
\* a result code, as in listener::listen): the promise catches it.
task_raise(t) ==
  /\ Running
  /\ t = Current
  /\ tasks[t].st = "running"
  /\ tasks' = [tasks EXCEPT ![t] = ended(tasks[t], TRUE)]
  /\ UNCHANGED <<reactor, besides_tasks>>

\* The running task's body returns.
task_return(t) ==
  /\ Running
  /\ t = Current
  /\ tasks[t].st = "running"
  /\ tasks' = [tasks EXCEPT ![t] = ended(tasks[t], FALSE)]
  /\ UNCHANGED <<reactor, besides_tasks>>

\* task::detach: the creator gives the task up; a coroutine that has ended
\* already has its frame released at once.
task_detach(t) ==
  /\ ub = "none" /\ ctx = "main"
  /\ Current = 0
  /\ tasks[t].mode = "driven"
  /\ tasks[t].seen = "none"
  /\ tasks' = [tasks EXCEPT ![t].mode = "detached",
                            ![t].frame = IF tasks[t].st = "done"
                                           THEN "released" ELSE "live"]
  /\ UNCHANGED <<reactor, besides_tasks>>

\* One iteration of poll's loop: the task suspended on the entry's bridge
\* runs again.
task_resumed(outcome) ==
  /\ DrainStep(outcome)
  /\ tasks' = [t \in Tasks |->
                 IF ctx' = "coro" /\ tasks[t].st = "suspended"
                    /\ tasks[t].on = NextCqe.token
                   THEN [tasks[t] EXCEPT !.st = "running", !.on = 0]
                   ELSE tasks[t]]
  /\ UNCHANGED besides_tasks

\* block_on(task), one round: the task has not ended, the owner polls.
block_on_poll(t, j) ==
  /\ Current = 0
  /\ tasks[t].mode = "driven"
  /\ tasks[t].st = "suspended"
  /\ PollEnter(j)
  /\ UNCHANGED around

\* block_on(task), the end: the task has ended and the owner takes its
\* result; the task object goes and the frame with it.
block_on_result(t) ==
  /\ ub = "none" /\ ctx = "main"
  /\ tasks[t].mode = "driven"
  /\ tasks[t].st = "done"
  /\ tasks[t].seen = "none"
  /\ tasks' = [tasks EXCEPT ![t].seen = result(tasks[t]),
                            ![t].frame = "released"]
  /\ UNCHANGED <<reactor, besides_tasks>>

\* Tasks over the reactor: every operation is awaited by a task.
NextT ==
  \/ \E t \in Tasks : task_start(t)
  \/ \E t \in Tasks, op \in Ops, j \in 0..Entries : task_await(t, op, j)
  \/ \E t \in Tasks : task_unhandled(t)
  \/ \E t \in Tasks : task_raise(t)
  \/ \E t \in Tasks : task_return(t)
  \/ \E t \in Tasks : task_detach(t)
  \/ \E outcome \in {"none", "segv", "wild"} : task_resumed(outcome)
  \/ \E t \in Tasks, j \in 0..Entries : block_on_poll(t, j)
  \/ \E t \in Tasks : block_on_result(t)
  \/ \E x \in inflight, res \in ResCodes :
       Complete(x, res) /\ UNCHANGED around
  \/ \E intr \in BOOLEAN : PollWake(intr) /\ UNCHANGED around
  \/ Current = 0 /\ Return /\ UNCHANGED around
  \/ PollEnd /\ UNCHANGED around

SpecT == Init /\ [][NextT]_vars

----------------------------------------------------------------------------
\* The two variants of poll.

\* The poll call that is entered now.
entered(kind) == [kind |-> kind, d0 |-> dispatched, k0 |-> cq_khead,
                  done |-> FALSE]

\* poll is entered.
poll_wait(j) ==
  /\ PollEnter(j)
  /\ pass' = entered("wait")
  /\ UNCHANGED besides_pass

\* The non-blocking poll as it would be if it waited for a completion.
poll_no_wait_waiting(j) ==
  /\ PollEnter(j)
  /\ pass' = entered("nowait")
  /\ UNCHANGED besides_pass

\* The non-blocking poll, first statement: io_uring_submit hands the pending
\* SQEs to the kernel (j of them) and the loop starts on what is there.
poll_no_wait(j) ==
  /\ ub = "none"
  /\ ctx = "main"
  /\ j \in 0..Pending
  /\ inflight' = inflight \cup Taken(j)
  /\ sq_head' = sq_head + j
  /\ head' = cq_khead
  /\ ctx' = "loop"
  /\ pass' = entered("nowait")
  /\ UNCHANGED <<built, sqes, sq_tail, cqw, cq_khead, posted, cqe_count_, ub,
                 ops, nextId, alloc, dispatched, lastSeq, dlast, besides_pass>>

\* Either variant, after the loop: the advance, the reset and the return.
poll_return ==
  /\ PollEnd
  /\ pass' = [pass EXCEPT !.done = TRUE]
  /\ UNCHANGED besides_pass

\* The reactor with both variants of poll.
NextN ==
  \/ \E op \in Ops, j \in 0..Entries : CoAwait(op, j) /\ UNCHANGED around
  \/ Unwind /\ UNCHANGED around
  \/ \E x \in inflight, res \in ResCodes :
       Complete(x, res) /\ UNCHANGED around
  \/ \E j \in 0..Entries : poll_wait(j)
  \/ \E j \in 0..Entries : poll_no_wait(j)
  \/ \E intr \in BOOLEAN : PollWake(intr) /\ UNCHANGED around
  \/ \E outcome \in {"none", "segv", "wild"} :
       DrainStep(outcome) /\ UNCHANGED around
  \/ Return /\ UNCHANGED around
  \/ poll_return

SpecN == Init /\ [][NextN]_vars

----------------------------------------------------------------------------
\* The echo handler of examples/helloworld.cc on one accepted connection:
\*   while ((n = co_await socket.recv(buf, sizeof(buf))) > 0)
\*     co_await socket.send(buf, n, MSG_NOSIGNAL);

\* The first k elements of a sequence.
Prefix(seq, k) == SubSeq(seq, 1, k)

\* The bytes the handler has received so far.
Received == Prefix(net.sent, Len(net.sent) - Len(net.wire))

\* The smaller of two numbers.
Min(a, b) == IF a < b THEN a ELSE b

\* The peer writes its next byte to the connection.
peer_send ==
  /\ ~net.shut
  /\ Len(net.sent) < MaxBytes
  /\ net' = [net EXCEPT !.sent = Append(@, Len(@) + 1),
                        !.wire = Append(@, Len(net.sent) + 1)]
  /\ UNCHANGED <<reactor, besides_net>>

\* The peer shuts down its sending side.
peer_shutdown ==
  /\ ~net.shut
  /\ net' = [net EXCEPT !.shut = TRUE]
  /\ UNCHANGED <<reactor, besides_net>>

\* An operation call of the handler: on std::bad_alloc the handler's task
\* ends.
echo_call(op, j, pc) ==
  /\ CoAwait(op, j)
  /\ net' = [net EXCEPT !.pc = IF nextId' = nextId + 1 THEN pc ELSE "done",
                        !.op = IF nextId' = nextId + 1 THEN nextId ELSE 0]
  /\ UNCHANGED besides_net

\* handler(std::move(socket)) is called and runs to its first co_await
\* socket.recv(buf, sizeof(buf)).
echo_start(j) ==
  /\ ctx = "main"
  /\ net.pc = "none"
  /\ echo_call("RECV", j, "recv")

\* The kernel completes the receive: k bytes of the receive queue go to buf,
\* 0 reports the end of the stream, a negative code an error.
recv_done(x, k) ==
  /\ net.pc = "recv" /\ x.id = net.op
  /\ \/ k \in 1..Min(Len(net.wire), BufLen)
     \/ k = 0 /\ net.wire = <<>> /\ net.shut
     \/ k = -1
  /\ Complete(x, k)
  /\ net' = IF k > 0
              THEN [net EXCEPT !.buf = Prefix(net.wire, k),
                               !.wire = SubSeq(@, k + 1, Len(@))]
              ELSE net
  /\ UNCHANGED besides_net

\* The kernel completes the send of n bytes: it has taken k of them, or
\* reports an error.
send_done(x, k) ==
  /\ net.pc = "send" /\ x.id = net.op
  /\ k \in (1..net.n) \cup {-1}
  /\ Complete(x, k)
  /\ net' = IF k > 0 THEN [net EXCEPT !.out = @ \o Prefix(net.buf, k)]
                     ELSE net
  /\ UNCHANGED besides_net

\* One iteration of poll's loop, and the handler it resumes up to its next
\* operation call: after recv, n is the value of the await and decides the
\* while; after send, the value of the await is dropped.
echo_resumed(outcome) ==
  /\ DrainStep(outcome)
  /\ net' = IF ctx' = "coro" /\ NextCqe.token = net.op
              THEN IF net.pc = "recv"
                     THEN [net EXCEPT
                            !.n = await_resume(poll_store(NextCqe.res)),
                            !.pc = IF await_resume(poll_store(NextCqe.res)) > 0
                                     THEN "tosend" ELSE "done",
                            !.op = 0]
                     ELSE [net EXCEPT !.pc = "torecv", !.op = 0]
              ELSE net
  /\ UNCHANGED besides_net

\* co_await socket.send(buf, n, MSG_NOSIGNAL).
echo_send(j) ==
  /\ net.pc = "tosend"
  /\ echo_call("SEND", j, "send")

\* The next co_await socket.recv(buf, sizeof(buf)).
echo_recv(j) ==
  /\ net.pc = "torecv"
  /\ echo_call("RECV", j, "recv")

\* The handler stands at an await, or has ended.
EchoAtRest == net.pc \in {"none", "recv", "send", "done"}

\* The echo handler over the reactor; the driver polls.
NextE ==
  \/ peer_send
  \/ peer_shutdown
  \/ \E j \in 0..Entries : echo_start(j)
  \/ \E x \in inflight, k \in -1..BufLen : recv_done(x, k)
  \/ \E x \in inflight, k \in -1..BufLen : send_done(x, k)
  \/ \E outcome \in {"none", "segv", "wild"} : echo_resumed(outcome)
  \/ \E j \in 0..Entries : echo_send(j)
  \/ \E j \in 0..Entries : echo_recv(j)
  \/ \E j \in 0..Entries : PollEnter(j) /\ UNCHANGED around
  \/ \E intr \in BOOLEAN : PollWake(intr) /\ UNCHANGED around
  \/ EchoAtRest /\ Return /\ UNCHANGED around
  \/ PollEnd /\ UNCHANGED around

SpecE == Init /\ [][NextE]_vars

----------------------------------------------------------------------------
\* A round trip through a file:
\*   w = co_await file.write(data, n, 0);  r = co_await file.read(rbuf, n, 0);

\* The arguments as they would be encoded if the offset were dropped for the
\* file position (-1).
prep_rw_cur(nbytes, offset) == [len |-> nbytes, off |-> -1]

\* file::read / file::write -> event_loop::read / event_loop::write ->
\* io_uring_prep_read / io_uring_prep_write: the length and the offset go
\* through as given.
prep_rw(nbytes, offset) == [len |-> nbytes, off |-> offset]

\* Where an operation with offset off acts: -1 stands for the file position.
At(off) == IF off = -1 THEN disk.pos ELSE off

\* The file after bytes were written at position at.
Overwrite(file, at, bytes) ==
  [i \in 1..(IF at + Len(bytes) > Len(file) THEN at + Len(bytes)
                                              ELSE Len(file)) |->
     IF i > at /\ i <= at + Len(bytes) THEN bytes[i - at] ELSE file[i]]

\* The file is opened: it holds some bytes already, the position is 0.
file_open(c) ==
  /\ ub = "none" /\ ctx = "main"
  /\ disk.pc = "none"
  /\ disk' = [NoDisk EXCEPT !.file = c, !.pc = "open"]
  /\ UNCHANGED <<reactor, besides_disk>>

\* An operation call of the coroutine; on std::bad_alloc it ends.
rw_call(op, j, pc, args) ==
  /\ CoAwait(op, j)
  /\ disk' = [args EXCEPT !.pc = IF nextId' = nextId + 1 THEN pc ELSE "done",
                          !.op = IF nextId' = nextId + 1 THEN nextId ELSE 0]
  /\ UNCHANGED besides_disk

\* co_await file.write(data, n, 0).
write_call(bytes, j) ==
  /\ ctx = "main"
  /\ disk.pc = "open"
  /\ rw_call("WRITE", j, "write",
             [disk EXCEPT !.data = bytes, !.sqe = prep_rw(Len(bytes), 0)])

\* The kernel completes the write: k bytes of data are in the file at the
\* encoded offset, or an error is reported.
write_done(x, k) ==
  /\ disk.pc = "write" /\ x.id = disk.op
  /\ k \in (1..disk.sqe.len) \cup {-1}
  /\ Complete(x, k)
  /\ disk' = IF k > 0
               THEN [disk EXCEPT
                      !.file = Overwrite(@, At(disk.sqe.off),
                                         Prefix(disk.data, k)),
                      !.pos = IF disk.sqe.off = -1 THEN @ + k ELSE @]
               ELSE disk
  /\ UNCHANGED besides_disk

\* The kernel completes the read: k bytes of the file from the encoded offset
\* on are in rbuf, 0 reports the end of the file, a negative code an error.
read_done(x, k) ==
  /\ disk.pc = "read" /\ x.id = disk.op
  /\ \/ k \in 1..Min(disk.sqe.len, Len(disk.file) - At(disk.sqe.off))
     \/ k = 0 /\ Len(disk.file) <= At(disk.sqe.off)
     \/ k = -1
  /\ Complete(x, k)
  /\ disk' = IF k > 0
               THEN [disk EXCEPT
                      !.rbuf = SubSeq(disk.file, At(disk.sqe.off) + 1,
                                      At(disk.sqe.off) + k),
                      !.pos = IF disk.sqe.off = -1 THEN @ + k ELSE @]
               ELSE disk
  /\ UNCHANGED besides_disk

\* One iteration of poll's loop, and the coroutine it resumes: the value of
\* the await is the result of the write, or of the read.
rw_resumed(outcome) ==
  /\ DrainStep(outcome)
  /\ disk' = IF ctx' = "coro" /\ NextCqe.token = disk.op
               THEN IF disk.pc = "write"
                      THEN [disk EXCEPT
                             !.wres = await_resume(poll_store(NextCqe.res)),
                             !.pc = "written", !.op = 0]
                      ELSE [disk EXCEPT
                             !.rres = await_resume(poll_store(NextCqe.res)),
                             !.pc = "done", !.op = 0]
               ELSE disk
  /\ UNCHANGED besides_disk

\* co_await file.read(rbuf, n, 0), after the write has been awaited.
read_call(j) ==
  /\ disk.pc = "written"
  /\ rw_call("READ", j, "read",
             [disk EXCEPT !.sqe = prep_rw(Len(disk.data), 0)])

\* The round trip over the reactor; the driver polls.
NextF ==
  \/ \E c \in Contents : file_open(c)
  \/ \E bytes \in Payloads, j \in 0..Entries : write_call(bytes, j)
  \/ \E x \in inflight, k \in -1..Len(disk.data) : write_done(x, k)
  \/ \E x \in inflight, k \in -1..Len(disk.data) : read_done(x, k)
  \/ \E outcome \in {"none", "segv", "wild"} : rw_resumed(outcome)
  \/ \E j \in 0..Entries : read_call(j)
  \/ \E j \in 0..Entries : PollEnter(j) /\ UNCHANGED around
  \/ \E intr \in BOOLEAN : PollWake(intr) /\ UNCHANGED around
  \/ disk.pc # "written" /\ Return /\ UNCHANGED around
  \/ PollEnd /\ UNCHANGED around

SpecF == Init /\ [][NextF]_vars

----------------------------------------------------------------------------
\* poll called by a continuation that poll has resumed (a coroutine that
\* drives another task itself).

\* Number of cells of the completion ring: twice the submission ring's.
CqSize == 2 * Entries

\* The entry in the cell that index h maps to: the last one the kernel wrote
\* there.
CellAt(h) ==
  nest.log[CHOOSE s \in 1..posted :
             /\ (s - 1) % CqSize = h % CqSize
             /\ \A r \in 1..posted : (r - 1) % CqSize = h % CqSize => r <= s]

\* The kernel completes an operation; the entry stays in the ring memory
\* after it has been acknowledged.
complete_logged(x, res) ==
  /\ Complete(x, res)
  /\ nest' = [nest EXCEPT !.log = Append(@, cqw'[Len(cqw')])]
  /\ UNCHANGED besides_nest

\* poll, first statement, called from a resumed continuation: the poll call
\* that resumed it stays on the stack with its local head.
poll_nested(j) ==
  /\ ub = "none"
  /\ ctx = "coro"
  /\ j \in 0..Pending
  /\ inflight' = inflight \cup Taken(j)
  /\ sq_head' = sq_head + j
  /\ ctx' = "wait"
  /\ nest' = [nest EXCEPT !.stack = <<[head |-> head, dlast |-> dlast]>> \o @]
  /\ UNCHANGED <<built, sqes, sq_tail, cqw, cq_khead, posted, cqe_count_, head,
                 ub, ops, nextId, alloc, dispatched, lastSeq, dlast,
                 besides_nest>>

\* One iteration of the loop whose local head is behind cq.khead, as that of
\* an outer poll is once an inner poll has acknowledged entries: the cell
\* holds an entry that was dispatched and acknowledged before.
drain_stale(outcome) ==
  /\ ub = "none"
  /\ ctx = "loop"
  /\ head < cq_khead
  /\ LET e == CellAt(head)
         t == e.token
         was == IF t = Null THEN "none" ELSE ops[t].state
         good == t # Null /\ was = "Suspended"
     IN
     /\ cqe_count_' = cqe_count_ + 1
     /\ dispatched' = dispatched + 1
     /\ lastSeq' = e.seq
     /\ dlast' = [seq |-> e.seq, id |-> e.id, token |-> t, res |-> e.res,
                  got |-> IF good THEN await_resume(poll_store(e.res)) ELSE 0,
                  was |-> was, kind |-> ops[e.id].kind,
                  same |-> ops[e.id].inpass, fl |-> ops[e.id].fl]
     /\ IF good
          THEN /\ outcome = "none"
               /\ ops' = [ops EXCEPT ![t].state = "Consumed"]
               /\ ctx' = "coro"
               /\ UNCHANGED ub
          ELSE /\ outcome \in {"segv", "wild"}
               /\ ub' = outcome
               /\ UNCHANGED <<ops, ctx>>
  /\ UNCHANGED <<built, sqes, sq_head, sq_tail, inflight, cqw, cq_khead, posted,
                 head, nextId, alloc, around>>

\* poll, after the loop, when it was called from a continuation: the advance
\* and the reset, and the continuation goes on inside the outer poll's loop.
poll_end_nested ==
  /\ ub = "none"
  /\ ctx = "loop"
  /\ nest.stack # <<>>
  /\ head = cq_khead + Len(cqw)
  /\ cq_khead' = cq_khead + cqe_count_
  /\ cqw' = cq_advance(cqe_count_)
  /\ cqe_count_' = 0
  /\ ctx' = "coro"
  /\ head' = Head(nest.stack).head
  /\ dlast' = Head(nest.stack).dlast
  /\ nest' = [nest EXCEPT !.stack = Tail(@)]
  /\ ops' = [b \in OpIds |-> [ops[b] EXCEPT !.inpass = FALSE, !.fl = FALSE]]
  /\ UNCHANGED <<built, sqes, sq_head, sq_tail, inflight, posted, ub, nextId,
                 alloc, dispatched, lastSeq, besides_nest>>

\* The reactor with poll called from continuations too.
NextP ==
  \/ \E op \in Ops, j \in 0..Entries : CoAwait(op, j) /\ UNCHANGED around
  \/ Unwind /\ UNCHANGED around
  \/ \E x \in inflight, res \in ResCodes : complete_logged(x, res)
  \/ \E j \in 0..Entries : PollEnter(j) /\ UNCHANGED around
  \/ \E j \in 0..Entries : poll_nested(j)
  \/ \E intr \in BOOLEAN : PollWake(intr) /\ UNCHANGED around
  \/ \E outcome \in {"none", "segv", "wild"} :
       head >= cq_khead /\ DrainStep(outcome) /\ UNCHANGED around
  \/ \E outcome \in {"none", "segv", "wild"} : drain_stale(outcome)
  \/ Return /\ UNCHANGED around
  \/ nest.stack = <<>> /\ PollEnd /\ UNCHANGED around
  \/ poll_end_nested

SpecP == Init /\ [][NextP]_vars

----------------------------------------------------------------------------
\* get_sqe taken statement by statement, the kernel completing operations in
\* between.

\* get_sqe's body as it would be with io_uring_submit before the advance.
get_sqe_after_submitting_first(pc) ==
  CASE pc = "full" -> "submit"
    [] pc = "submitted" -> "advance"
    [] pc = "advanced" -> "reset"
    [] pc = "reset" -> "retry"
    [] OTHER -> "first"

\* The statement of get_sqe's body that follows position pc: after the first
\* io_uring_get_sqe has returned nullptr, io_uring_cq_advance, `cqe_count_ =
\* 0`, io_uring_submit, and the second io_uring_get_sqe.
get_sqe_after(pc) ==
  CASE pc = "full" -> "advance"
    [] pc = "advanced" -> "reset"
    [] pc = "reset" -> "submit"
    [] pc = "submitted" -> "retry"
    [] OTHER -> "first"

InGetSqe == gs.pc # "idle"

\* The slot at sq_tail is handed out and operation op encoded into it; the
\* await on the bridge records the continuation and the token.
get_sqe_returns(op) ==
  /\ alloc' = [flushes |-> IF gs.pc = "idle" THEN 0 ELSE 1,
               tries |-> gs.tries + 1]
  /\ sqes' = [sqes EXCEPT ![sq_tail % Entries] =
                [id |-> nextId, token |-> nextId]]
  /\ sq_tail' = sq_tail + 1
  /\ ops' = [ops EXCEPT ![nextId] =
               [kind |-> "await", state |-> "Suspended",
                sup |-> (op \in supported_ops_), inpass |-> (ctx = "coro"),
                fl |-> FALSE, idx |-> sq_tail]]
  /\ nextId' = nextId + 1
  /\ gs' = NoGs

\* co_await loop.<op>(...) up to the first io_uring_get_sqe of get_sqe.
get_sqe_first(op) ==
  /\ Running
  /\ get_sqe_after(gs.pc) = "first"
  /\ nextId <= MaxOps
  /\ supports(op)
  /\ IF sq_tail - sq_head < Entries
       THEN get_sqe_returns(op)
       ELSE /\ gs' = [pc |-> "full", op |-> op, tries |-> 1]
            /\ UNCHANGED <<alloc, sqes, sq_tail, ops, nextId>>
  /\ UNCHANGED <<built, sq_head, inflight, cqw, cq_khead, posted, cqe_count_,
                 head, ctx, ub, dispatched, lastSeq, dlast, besides_gs>>

\* ::io_uring_cq_advance(&ring_, cqe_count_).
get_sqe_advance ==
  /\ Running
  /\ get_sqe_after(gs.pc) = "advance"
  /\ cq_khead' = cq_khead + cqe_count_
  /\ cqw' = cq_advance(cqe_count_)
  /\ gs' = [gs EXCEPT !.pc = "advanced"]
  /\ UNCHANGED <<built, sqes, sq_head, sq_tail, inflight, posted, cqe_count_,
                 head, ctx, ub, ops, nextId, alloc, dispatched, lastSeq, dlast,
                 besides_gs>>

\* cqe_count_ = 0.
get_sqe_reset ==
  /\ Running
  /\ get_sqe_after(gs.pc) = "reset"
  /\ cqe_count_' = 0
  /\ gs' = [gs EXCEPT !.pc = "reset"]
  /\ UNCHANGED <<built, sqes, sq_head, sq_tail, inflight, cqw, cq_khead, posted,
                 head, ctx, ub, ops, nextId, alloc, dispatched, lastSeq, dlast,
                 besides_gs>>

\* ::io_uring_submit(&ring_): the kernel accepts j of the pending SQEs.
get_sqe_submit(j) ==
  /\ Running
  /\ get_sqe_after(gs.pc) = "submit"
  /\ j \in 0..Pending
  /\ inflight' = inflight \cup Taken(j)
  /\ sq_head' = sq_head + j
  /\ ops' = Flushed(j)
  /\ gs' = [gs EXCEPT !.pc = "submitted"]
  /\ UNCHANGED <<built, sqes, sq_tail, cqw, cq_khead, posted, cqe_count_, head,
                 ctx, ub, nextId, alloc, dispatched, lastSeq, dlast,
                 besides_gs>>

\* The second io_uring_get_sqe, and std::bad_alloc when it returns nullptr.
get_sqe_retry ==
  /\ Running
  /\ get_sqe_after(gs.pc) = "retry"
  /\ IF sq_tail - sq_head < Entries
       THEN get_sqe_returns(gs.op) /\ UNCHANGED ctx
       ELSE /\ alloc' = [flushes |-> 1, tries |-> gs.tries + 1]
            /\ ctx' = IF ctx = "main" THEN "throw_main" ELSE "throw_coro"
            /\ gs' = NoGs
            /\ UNCHANGED <<sqes, sq_tail, ops, nextId>>
  /\ UNCHANGED <<built, sq_head, inflight, cqw, cq_khead, posted, cqe_count_,
                 head, ub, dispatched, lastSeq, dlast, besides_gs>>

\* The reactor with get_sqe taken statement by statement.
NextA ==
  \/ \E op \in Ops : get_sqe_first(op)
  \/ get_sqe_advance
  \/ get_sqe_reset
  \/ \E j \in 0..Entries : get_sqe_submit(j)
  \/ get_sqe_retry
  \/ Unwind /\ UNCHANGED around
  \/ \E x \in inflight, res \in ResCodes : Complete(x, res) /\ UNCHANGED around
  \/ \E j \in 0..Entries : ~InGetSqe /\ PollEnter(j) /\ UNCHANGED around
  \/ \E intr \in BOOLEAN : PollWake(intr) /\ UNCHANGED around
  \/ \E outcome \in {"none", "segv", "wild"} :
       DrainStep(outcome) /\ UNCHANGED around
  \/ ~InGetSqe /\ Return /\ UNCHANGED around
  \/ PollEnd /\ UNCHANGED around

SpecA == Init /\ [][NextA]_vars

----------------------------------------------------------------------------
\* The constructor that event_loop.h defines inline: no member initializer
\* for cqe_count_, no try/catch around the probe.

\* Values the indeterminate cqe_count_ may turn out to hold.
Garbage == {0, 1}

\* cqe_count_ counts the entries dispatched and not yet acknowledged, as it
\* does from a zero start.
Determinate == cq_khead + cqe_count_ = dispatched

\* The inline constructor up to check_nerrno(io_uring_queue_init_params(...)):
\* cqe_count_ holds whatever the storage held.
ctor_init_inline(rc, c) ==
  /\ ctx = "new"
  /\ cqe_count_' = c
  /\ boot' = [boot EXCEPT !.init = rc,
                          !.ring_ = IF rc < 0 THEN "none" ELSE "open"]
  /\ ctx' = IF check_nerrno(rc) THEN "ctor_threw" ELSE "ctor"
  /\ UNCHANGED <<caps, sqes, sq_head, sq_tail, inflight, cqw, cq_khead, posted,
                 head, ub, ops, nextId, alloc, dispatched, lastSeq, dlast>>

\* The rest of the inline constructor: when probe_ring's constructor throws,
\* the exception leaves event_loop's constructor as it is; ~event_loop does
\* not run for an object whose constructor threw.
ctor_probe_inline(ptr) ==
  /\ ctx = "ctor"
  /\ IF check_ptr(ptr)
       THEN /\ boot' = [boot EXCEPT !.probe = ptr]
            /\ ctx' = "ctor_threw"
            /\ UNCHANGED caps
       ELSE /\ boot' = [boot EXCEPT !.probe = ptr]
            /\ supported_ops_' = supported_ops
            /\ supported_features_' =
                 init_supported_features(supported_features_, KernelFeatures,
                                         Features)
            /\ ctx' = "main"
  /\ UNCHANGED <<ring, head, ub, ops, nextId, alloc, dispatched, lastSeq,
                 dlast>>

\* The first statement that reads cqe_count_ while it holds a value nothing
\* has assigned: `cqe_count_++` and io_uring_cq_advance in poll, or the
\* advance of get_sqe's forced flush.
read_indeterminate(outcome) ==
  /\ ub = "none"
  /\ ~Determinate
  /\ \/ ctx = "loop"
     \/ Running /\ nextId <= MaxOps /\ Pending = Entries
  /\ outcome \in {"segv", "wild"}
  /\ ub' = outcome
  /\ UNCHANGED <<built, ring, head, ctx, ops, nextId, alloc, dispatched,
                 lastSeq, dlast>>

\* event_loop as event_loop.h alone defines it.
NextH ==
  \/ \E rc \in InitCodes, c \in Garbage :
       ctor_init_inline(rc, c) /\ UNCHANGED around
  \/ \E ptr \in ProbePtrs : ctor_probe_inline(ptr) /\ UNCHANGED around
  \/ \E outcome \in {"segv", "wild"} :
       read_indeterminate(outcome) /\ UNCHANGED around
  \/ \E op \in Ops, j \in 0..Entries :
       /\ Determinate \/ Pending < Entries \/ ~supports(op)
       /\ CoAwait(op, j) /\ UNCHANGED around
  \/ Unwind /\ UNCHANGED around
  \/ \E x \in inflight, res \in ResCodes :
       Complete(x, res) /\ UNCHANGED around
  \/ \E j \in 0..Entries : PollEnter(j) /\ UNCHANGED around
  \/ \E intr \in BOOLEAN : PollWake(intr) /\ UNCHANGED around
  \/ \E outcome \in {"none", "segv", "wild"} :
       Determinate /\ DrainStep(outcome) /\ UNCHANGED around
  \/ Return /\ UNCHANGED around
  \/ Determinate /\ PollEnd /\ UNCHANGED around

SpecH == InitC /\ [][NextH]_vars

----------------------------------------------------------------------------
\* The constructor of event_loop.cc on kernels that differ in what they
\* report.

\* The opcodes in the order of their numbers, as a probe lists them.
OpOrder ==
  <<"NOP", "READV", "WRITEV", "FSYNC", "READ_FIXED", "WRITE_FIXED",
    "POLL_ADD", "SYNC_FILE_RANGE", "SENDMSG", "RECVMSG", "TIMEOUT", "ACCEPT",
    "CONNECT", "OPENAT", "CLOSE", "STATX", "READ", "WRITE", "SEND", "RECV",
    "OPENAT2", "SPLICE", "TEE", "SHUTDOWN", "RENAMEAT", "UNLINKAT", "MKDIRAT",
    "SYMLINKAT", "LINKAT">>

\* The probe of a kernel that knows the first n opcodes, does not support
\* those in lacks, sets another flag bit on those in odd, and has the entries
\* of more for opcodes from IORING_OP_LAST of the headers on.
probe_of(n, lacks, odd, more) ==
  [i \in 1..n |->
     [op |-> OpOrder[i],
      flags |-> (IF OpOrder[i] \in lacks THEN 0 ELSE 1)
                  + (IF OpOrder[i] \in odd THEN 2 ELSE 0)]] \o more

\* The probes io_uring_get_probe_ring returns in the behaviours checked: the
\* kernel of the other specifications, an older one, one that sets a flag
\* bit other than IO_URING_OP_SUPPORTED, and newer ones that list an opcode
\* the headers do not have, supported or not.
Probes ==
  {probe_of(Len(OpOrder), ProbeLacks, {}, <<>>),
   probe_of(Len(OpOrder) - 6, {"TEE"}, {}, <<>>),
   probe_of(Len(OpOrder), {"SPLICE", "TEE"}, {"TEE", "NOP"}, <<>>),
   probe_of(Len(OpOrder), {}, {}, <<[op |-> "FUTURE", flags |-> 0]>>),
   probe_of(Len(OpOrder), {}, {}, <<[op |-> "FUTURE", flags |-> 1]>>)}

\* The features words io_uring_queue_init_params returns in params.features,
\* as the set of the bits set; CQE_SKIP is a bit enum class feature lacks.
FeatureWords ==
  {{},
   {"IORING_FEAT_" \o f : f \in KernelFeatures},
   {"IORING_FEAT_" \o f : f \in Features} \cup {"IORING_FEAT_CQE_SKIP"}}

\* The test as it would be if any flag bit counted as support.
op_supported_any(flags) == flags # 0

\* flags & IO_URING_OP_SUPPORTED, the lowest bit.
op_supported(flags) == flags % 2 = 1

\* std::bitset<IORING_OP_LAST>::set(pos) throws std::out_of_range for a
\* position that is not below IORING_OP_LAST.
bitset_set_throws(op) == op \notin Ops

\* probe_ring::supported_ops throws: the loop reaches a supported entry whose
\* opcode the bitset cannot hold.
supported_ops_throws(probe) ==
  \E i \in 1..Len(probe) :
    op_supported(probe[i].flags) /\ bitset_set_throws(probe[i].op)

\* probe_ring::supported_ops: the loop over probe_->ops[0 .. ops_len), from
\* entry i on, with the bitset built so far.
RECURSIVE probe_supported_ops(_, _, _)
probe_supported_ops(probe, i, bits) ==
  IF i > Len(probe) THEN bits
  ELSE probe_supported_ops(probe, i + 1,
         IF op_supported(probe[i].flags) THEN bits \cup {probe[i].op}
         ELSE bits)

\* The calls of check_feature in init_supported_features, in their order:
\* test_bit and efeat.
FeatureChecks ==
  <<<<"IORING_FEAT_SINGLE_MMAP", "SINGLE_MMAP">>,
    <<"IORING_FEAT_NODROP", "NODROP">>,
    <<"IORING_FEAT_SUBMIT_STABLE", "SUBMIT_STABLE">>,
    <<"IORING_FEAT_RW_CUR_POS", "RW_CUR_POS">>,
    <<"IORING_FEAT_CUR_PERSONALITY", "CUR_PERSONALITY">>,
    <<"IORING_FEAT_FAST_POLL", "FAST_POLL">>,
    <<"IORING_FEAT_POLL_32BITS", "POLL_32BITS">>,
    <<"IORING_FEAT_SQPOLL_NONFIXED", "SQPOLL_NONFIXED">>,
    <<"IORING_FEAT_EXT_ARG", "EXT_ARG">>,
    <<"IORING_FEAT_NATIVE_WORKERS", "NATIVE_WORKERS">>,
    <<"IORING_FEAT_RSRC_TAGS", "RSRC_TAGS">>>>

\* check_feature(features, test_bit, efeat) on the set built so far.
check_feature_bit(set, features, test_bit, efeat) ==
  IF test_bit \in features THEN set \cup {efeat} ELSE set

\* init_supported_features(params), from its i-th call of check_feature on.
RECURSIVE init_supported_features_params(_, _, _)
init_supported_features_params(set, features, i) ==
  IF i > Len(FeatureChecks) THEN set
  ELSE init_supported_features_params(
         check_feature_bit(set, features, FeatureChecks[i][1],
                           FeatureChecks[i][2]),
         features, i + 1)

\* The constructor up to check_nerrno(io_uring_queue_init_params(...)); the
\* kernel has filled params.features when the call succeeds.
ctor_init_params(rc, word) ==
  /\ ctx = "new"
  /\ cqe_count_' = 0
  /\ boot' = [boot EXCEPT !.init = rc,
                          !.ring_ = IF rc < 0 THEN "none" ELSE "open"]
  /\ kern' = [kern EXCEPT !.features = IF rc < 0 THEN {} ELSE word]
  /\ ctx' = IF check_nerrno(rc) THEN "ctor_threw" ELSE "ctor"
  /\ UNCHANGED <<caps, sqes, sq_head, sq_tail, inflight, cqw, cq_khead, posted,
                 head, ub, ops, nextId, alloc, dispatched, lastSeq, dlast,
                 besides_kern>>

\* The rest of the constructor: probe_ring's constructor and supported_ops
\* inside try/catch, then init_supported_features.
ctor_probe_ring(ptr, probe) ==
  /\ ctx = "ctor"
  /\ IF check_ptr(ptr)
       THEN /\ boot' = [boot EXCEPT !.probe = ptr, !.ring_ = "exited"]
            /\ ctx' = "ctor_threw"
            /\ UNCHANGED <<caps, kern>>
       ELSE /\ kern' = [kern EXCEPT !.probe = probe]
            /\ IF supported_ops_throws(probe)
                 THEN /\ boot' = [boot EXCEPT !.probe = ptr,
                                              !.ring_ = "exited"]
                      /\ ctx' = "ctor_threw"
                      /\ UNCHANGED caps
                 ELSE /\ boot' = [boot EXCEPT !.probe = ptr]
                      /\ supported_ops_' = probe_supported_ops(probe, 1, {})
                      /\ supported_features_' =
                           init_supported_features_params(
                             supported_features_, kern.features, 1)
                      /\ ctx' = "main"
  /\ UNCHANGED <<ring, head, ub, ops, nextId, alloc, dispatched, lastSeq,
                 dlast, besides_kern>>

\* The reactor on whatever kernel it was constructed on.
NextK ==
  \/ \E rc \in InitCodes, word \in FeatureWords : ctor_init_params(rc, word)
  \/ \E ptr \in ProbePtrs, probe \in Probes : ctor_probe_ring(ptr, probe)
  \/ \E op \in Ops, j \in 0..Entries : CoAwait(op, j) /\ UNCHANGED around
  \/ Unwind /\ UNCHANGED around
  \/ \E x \in inflight, res \in ResCodes :
       Complete(x, res) /\ UNCHANGED around
  \/ \E j \in 0..Entries : PollEnter(j) /\ UNCHANGED around
  \/ \E intr \in BOOLEAN : PollWake(intr) /\ UNCHANGED around
  \/ \E outcome \in {"none", "segv", "wild"} :
       DrainStep(outcome) /\ UNCHANGED around
  \/ Return /\ UNCHANGED around
  \/ PollEnd /\ UNCHANGED around

SpecK == InitC /\ [][NextK]_vars

----------------------------------------------------------------------------
\* The wrappers when a close() is still suspended and the object is closed
\* again or destroyed.

\* No destructor of another object and no close() body is in mid-run.
Quiet(w) == \A v \in Objs \ {w} : objs[v].life # "dying" /\ objs[v].cw # 3

\* A second close() on the single-descriptor wrapper w while its first
\* close() awaits: `if (fd_ > 0) co_await loop_->close(fd_)` once more.
close_overlapping(w, j) ==
  /\ Running /\ Calm
  /\ objs[w].life = "live" /\ objs[w].kind = "file"
  /\ objs[w].cw = 1
  /\ twin = NoTwin
  /\ IF ~valid(objs[w].fd_[1])
       THEN UNCHANGED <<reactor, closes, twin>>
       ELSE /\ CoAwait("CLOSE", j)
            /\ IF nextId' = nextId + 1
                 THEN /\ twin' = [w |-> w, e |-> 1, op |-> nextId]
                      /\ closes' = [closes EXCEPT ![objs[w].fd_[1]] = @ + 1]
                 ELSE UNCHANGED <<closes, twin>>
  /\ UNCHANGED <<objs, besides_wrappers>>

\* The destructor of w, one end per step, while w's close() is suspended.
dtor_during_close(w, j) ==
  /\ Running
  /\ objs[w].cw \in {1, 2}
  /\ \/ objs[w].life = "dying"
     \/ objs[w].life = "live" /\ Quiet(w)
  /\ LET e == objs[w].dt
         done == [objs EXCEPT ![w].dt = e + 1,
                              ![w].life = IF e + 1 \in Ends(w) THEN "dying"
                                                               ELSE "dead"]
     IN IF valid(objs[w].fd_[e])
          THEN /\ close_detach(j)
               /\ IF nextId' = nextId + 1
                    THEN /\ objs' = done
                         /\ closes' = [closes EXCEPT ![objs[w].fd_[e]] = @ + 1]
                    ELSE /\ objs' = [objs EXCEPT ![w].life = "dying"]
                         /\ UNCHANGED closes
          ELSE /\ objs' = done
               /\ UNCHANGED <<reactor, closes>>
  /\ UNCHANGED <<twin, besides_wrappers>>

\* The close() coroutine, if any, that awaits operation t: the wrapper it
\* runs on, and whether it is the first or the second one.
Closer(t) ==
  IF twin.w # 0 /\ twin.op = t THEN [w |-> twin.w, e |-> twin.e, second |-> TRUE]
  ELSE IF \E w \in Objs : objs[w].cw \in {1, 2} /\ objs[w].cop = t
    THEN LET w == CHOOSE v \in Objs : objs[v].cw \in {1, 2} /\ objs[v].cop = t
         IN [w |-> w, e |-> objs[w].cw, second |-> FALSE]
  ELSE [w |-> 0, e |-> 0, second |-> FALSE]

\* One iteration of poll's loop, and the body of the close() it resumes up
\* to `fd_ = -1`; when the object has been destroyed the store is still to
\* come (cw = 4).
close_resumed_late(outcome) ==
  /\ DrainStep(outcome)
  /\ LET c == Closer(NextCqe.token)
         w == c.w
         e == c.e
     IN IF ctx' # "coro" \/ w = 0
          THEN UNCHANGED <<objs, twin>>
        ELSE IF objs[w].life = "dead"
          THEN /\ objs' = [objs EXCEPT ![w].cw = 4]
               /\ twin' = IF c.second THEN NoTwin ELSE twin
        ELSE IF c.second
          THEN /\ objs' = [objs EXCEPT
                    ![w].fd_[e] = after_close(objs[w].fd_[e])]
               /\ twin' = NoTwin
        ELSE /\ objs' = [objs EXCEPT
                  ![w].fd_[e] = after_close(objs[w].fd_[e]),
                  ![w].closed[e] = TRUE,
                  ![w].rc[e] = await_resume(poll_store(NextCqe.res)),
                  ![w].cop = 0,
                  ![w].cw = IF e = 1 /\ objs[w].kind = "pipe" THEN 3 ELSE 0]
             /\ UNCHANGED twin
  /\ UNCHANGED <<closes, besides_wrappers>>

\* `fd_ = -1` through the this pointer of an object that has been
\* destroyed: the store lands in storage nobody uses, or in somebody's.
store_after_dtor(w, outcome) ==
  /\ ub = "none"
  /\ ctx = "coro"
  /\ objs[w].cw = 4
  /\ outcome \in {"none", "wild"}
  /\ ub' = outcome
  /\ objs' = [objs EXCEPT ![w].cw = 0, ![w].cop = 0]
  /\ UNCHANGED <<built, ring, head, ctx, ops, nextId, alloc, dispatched,
                 lastSeq, dlast, closes, twin, besides_wrappers>>

\* No close() body is between its resumption and its store.
Stored == \A w \in Objs : objs[w].cw # 4

\* The wrappers with close() calls and destructors that overlap a close().
NextX ==
  \/ \E w \in Objs, d \in Fds :
       file_ctor(w, d) /\ UNCHANGED scenes
  \/ \E w \in Objs, d0 \in Fds, d1 \in Fds :
       pipe_ctor(w, d0, d1) /\ UNCHANGED scenes
  \/ \E w \in Objs, j \in 0..Entries :
       wrapper_close(w, j) /\ UNCHANGED scenes
  \/ \E w \in Objs, j \in 0..Entries :
       wrapper_close_next(w, j) /\ UNCHANGED scenes
  \/ \E w \in Objs, j \in 0..Entries :
       wrapper_dtor(w, j) /\ UNCHANGED scenes
  \/ \E w \in Objs, j \in 0..Entries : close_overlapping(w, j)
  \/ \E w \in Objs, j \in 0..Entries : dtor_during_close(w, j)
  \/ \E outcome \in {"none", "segv", "wild"} : close_resumed_late(outcome)
  \/ \E w \in Objs, outcome \in {"none", "wild"} : store_after_dtor(w, outcome)
  \/ Calm /\ Unwind /\ UNCHANGED around
  \/ \E x \in inflight, res \in ResCodes :
       Complete(x, res) /\ UNCHANGED around
  \/ \E j \in 0..Entries : Calm /\ PollEnter(j) /\ UNCHANGED around
  \/ \E intr \in BOOLEAN : PollWake(intr) /\ UNCHANGED around
  \/ Calm /\ Stored /\ Return /\ UNCHANGED around
  \/ PollEnd /\ UNCHANGED around

SpecX == Init /\ [][NextX]_vars

----------------------------------------------------------------------------
\* The wrapper factories: file::open, openat, openat2, dir::open, openat,
\* openat2 and listener::accept share one body.

\* The operations the factories await.
FactoryOps == {"OPENAT", "OPENAT2", "ACCEPT"}

\* What the kernel answers an open or an accept: a negated errno, or a
\* descriptor that is not in use.
OpenResults == {-1} \cup (Fds \ Used)

\* The factory up to its suspension: `co_await loop->openat(...)`.
factory_call(op, j) ==
  /\ Running /\ Calm
  /\ made.pc = "none"
  /\ op \in FactoryOps
  /\ CoAwait(op, j)
  /\ made' = IF nextId' = nextId + 1
               THEN [made EXCEPT !.pc = "waiting", !.op = nextId,
                                 !.sock = (op = "ACCEPT")]
             ELSE IF ctx' \in Thrown THEN [made EXCEPT !.pc = "nomem"]
             ELSE made
  /\ UNCHANGED besides_made

\* One iteration of poll's loop that resumes the factory: `int fd = co_await
\* ...` gets its value.
factory_resumed(outcome) ==
  /\ made.pc = "waiting"
  /\ DrainStep(outcome)
  /\ made' = IF ctx' = "coro" /\ NextCqe.token = made.op
               THEN [made EXCEPT !.pc = "resumed",
                                 !.fd = await_resume(poll_store(NextCqe.res))]
               ELSE made
  /\ UNCHANGED besides_made

\* assert(fd_ > 0) in socket(loop, fd): whether it holds.
socket_ctor_assert(fd) == fd > 0

\* check_nerrno(fd, "failed to open file"), and the temporary of the
\* co_return statement when it does not throw: file(loop, fd), dir(loop, fd),
\* or socket(loop, fd) with its assertion.
factory_check(w) ==
  /\ ub = "none"
  /\ ctx = "coro"
  /\ made.pc = "resumed"
  /\ objs[w].life = "none" /\ \A v \in Objs : objs[v].life = "none" => w <= v
  /\ IF check_nerrno(made.fd)
       THEN /\ made' = [made EXCEPT !.pc = "failed"]
            /\ UNCHANGED <<objs, ctx>>
       ELSE IF made.sock /\ ~socket_ctor_assert(made.fd)
         THEN /\ made' = [made EXCEPT !.pc = "asserted"]
              /\ ctx' = "aborted"
              /\ UNCHANGED objs
         ELSE /\ made' = [made EXCEPT !.pc = "built", !.tmp = w]
              /\ objs' = [objs EXCEPT ![w] =
                            [NoObj EXCEPT !.kind = "file", !.life = "live",
                                          !.fd_ = <<made.fd, -1>>,
                                          !.own = <<made.fd, -1>>]]
              /\ UNCHANGED ctx
  /\ UNCHANGED <<built, ring, head, ub, ops, nextId, alloc, dispatched,
                 lastSeq, dlast, closes, besides_factory>>

\* co_return: the temporary is moved into the object the caller gets.
factory_move(v) ==
  /\ made.pc = "built"
  /\ move_ctor(made.tmp, v)
  /\ made' = [made EXCEPT !.pc = "moved", !.ret = v]
  /\ UNCHANGED besides_factory

\* The end of the co_return statement: the temporary is destroyed.
factory_drop(j) ==
  /\ made.pc = "moved"
  /\ wrapper_dtor(made.tmp, j)
  /\ made' = [made EXCEPT !.pc = IF objs'[made.tmp].life = "dead"
                                   THEN "returned" ELSE @]
  /\ UNCHANGED besides_factory

\* The factory's coroutine is not between its resumption and its end.
Settled == made.pc \notin {"resumed", "built", "moved"}

\* A factory call, and then the caller closing or dropping what it got.
NextY ==
  \/ \E op \in FactoryOps, j \in 0..Entries : factory_call(op, j)
  \/ \E outcome \in {"none", "segv", "wild"} : factory_resumed(outcome)
  \/ \E w \in Objs : factory_check(w)
  \/ \E v \in Objs : factory_move(v)
  \/ \E j \in 0..Entries : factory_drop(j)
  \/ \E j \in 0..Entries :
       /\ made.pc = "returned"
       /\ wrapper_close(made.ret, j) /\ UNCHANGED scenes
  \/ \E j \in 0..Entries :
       /\ made.pc = "returned"
       /\ wrapper_dtor(made.ret, j) /\ UNCHANGED scenes
  \/ \E outcome \in {"none", "segv", "wild"} :
       /\ made.pc # "waiting"
       /\ close_resumed(outcome) /\ UNCHANGED scenes
  \/ \E x \in inflight, res \in OpenResults :
       Complete(x, res) /\ UNCHANGED around
  \/ \E j \in 0..Entries : Calm /\ PollEnter(j) /\ UNCHANGED around
  \/ \E intr \in BOOLEAN : PollWake(intr) /\ UNCHANGED around
  \/ Calm /\ Settled /\ Return /\ UNCHANGED around
  \/ PollEnd /\ UNCHANGED around

SpecY == Init /\ [][NextY]_vars

----------------------------------------------------------------------------
\* socket::connect: the loop over the resolved addresses.

\* What getaddrinfo returns: 0, or an error code.
ResolveCodes == {0, 1}

\* What ::socket returns: -1, or a descriptor that is not open (0 when the
\* process has closed its standard input).
SocketResults ==
  {-1, 0} \cup {d \in Fds : d > 0 /\ \A k \in 1..Len(dial.tried) :
                                       dial.tried[k].fd # d}

\* What a connect operation completes with: 0, or a negated errno.
ConnectResults == {-1, 0}

\* The test the loop makes on ::socket's result before `continue`.
socket_failed(fd) == fd <= 0

\* The test as it would be if every result counted as connected.
connected_any(rc) == TRUE

\* The test on the value of `co_await loop->connect(...)`.
connected(rc) == rc = 0

\* The coroutine of connect is suspended, has ended, or was never started.
DialAtRest == dial.pc \in {"none", "waiting", "returned", "failed"}

\* connect up to the loop: getaddrinfo and its check.
dial_start(rc, n) ==
  /\ Running
  /\ dial.pc = "none"
  /\ n \in 1..MaxAddrs
  /\ dial' = IF rc # 0 THEN [dial EXCEPT !.pc = "failed"]
             ELSE [dial EXCEPT !.pc = "next", !.n = n, !.i = 1]
  /\ UNCHANGED <<reactor, closes, besides_dialing>>

\* One pass through the head of the loop body: ::socket, the test on its
\* result, new_socket, and `co_await loop->connect(new_socket.fd(), ...)` up
\* to the suspension.  The slot allocation succeeds.
dial_attempt(fd, j) ==
  /\ Running
  /\ dial.pc = "next" /\ dial.i <= dial.n
  /\ fd \in SocketResults
  /\ IF socket_failed(fd)
       THEN /\ dial' = [dial EXCEPT !.i = @ + 1]
            /\ UNCHANGED reactor
       ELSE /\ CoAwait("CONNECT", j)
            /\ nextId' = nextId + 1
            /\ dial' = [dial EXCEPT !.pc = "waiting", !.sock = fd,
                                    !.op = nextId]
  /\ UNCHANGED <<closes, besides_dialing>>

\* After the loop: freeaddrinfo and throw std::runtime_error.
dial_fail ==
  /\ Running
  /\ dial.pc = "next" /\ dial.i > dial.n
  /\ dial' = [dial EXCEPT !.pc = "failed"]
  /\ UNCHANGED <<reactor, closes, besides_dialing>>

\* One iteration of poll's loop that resumes connect: `int rc = co_await
\* ...` gets its value.
dial_resumed(outcome) ==
  /\ dial.pc = "waiting"
  /\ DrainStep(outcome)
  /\ dial' = IF ctx' = "coro" /\ NextCqe.token = dial.op
               THEN [dial EXCEPT !.pc = "resumed",
                                 !.rc = await_resume(poll_store(NextCqe.res))]
               ELSE dial
  /\ UNCHANGED <<closes, besides_dialing>>

\* `if (rc == 0) { freeaddrinfo; co_return new_socket; }`: the socket is
\* moved to the caller; otherwise the iteration ends.
dial_check ==
  /\ Running
  /\ dial.pc = "resumed"
  /\ dial' = [dial EXCEPT
       !.tried = Append(@, [addr |-> dial.i, fd |-> dial.sock,
                            rc |-> dial.rc]),
       !.ret = IF connected(dial.rc) THEN dial.sock ELSE @,
       !.sock = IF connected(dial.rc) THEN moved_from(dial.sock) ELSE @,
       !.pc = IF connected(dial.rc) THEN "moved" ELSE "dropping"]
  /\ UNCHANGED <<reactor, closes, besides_dialing>>

\* new_socket goes out of scope: ~socket, with close_detach when fd_ > 0;
\* then connect has returned, or the loop goes to the next address.
dial_drop(j) ==
  /\ Running
  /\ dial.pc \in {"moved", "dropping"}
  /\ IF valid(dial.sock)
       THEN /\ close_detach(j)
            /\ nextId' = nextId + 1
            /\ closes' = [closes EXCEPT ![dial.sock] = @ + 1]
       ELSE UNCHANGED <<reactor, closes>>
  /\ dial' = IF dial.pc = "moved"
               THEN [dial EXCEPT !.pc = "returned", !.sock = -1]
               ELSE [dial EXCEPT !.pc = "next", !.sock = -1, !.i = @ + 1]
  /\ UNCHANGED besides_dialing

\* A coroutine that calls socket::connect once, over the reactor.
NextD ==
  \/ \E rc \in ResolveCodes, n \in 1..MaxAddrs : dial_start(rc, n)
  \/ \E fd \in Fds \cup {-1}, j \in 0..Entries : dial_attempt(fd, j)
  \/ dial_fail
  \/ \E outcome \in {"none", "segv", "wild"} : dial_resumed(outcome)
  \/ dial_check
  \/ \E j \in 0..Entries : dial_drop(j)
  \/ \E outcome \in {"none", "segv", "wild"} :
       dial.pc # "waiting" /\ DrainStep(outcome) /\ UNCHANGED around
  \/ \E x \in inflight, res \in ConnectResults :
       Complete(x, res) /\ UNCHANGED around
  \/ \E j \in 0..Entries : DialAtRest /\ PollEnter(j) /\ UNCHANGED around
  \/ \E intr \in BOOLEAN : PollWake(intr) /\ UNCHANGED around
  \/ DialAtRest /\ Return /\ UNCHANGED around
  \/ PollEnd /\ UNCHANGED around

SpecD == Init /\ [][NextD]_vars

----------------------------------------------------------------------------
\* listener::listen (listener.h:46-82) and the listener it returns.

\* What ::setsockopt, ::bind and ::listen return.
CallResults == {-1, 0}

\* What ::socket returns: -1, or a descriptor that is not open.
FreshResults == {-1} \cup (Fds \ heard.open)

\* check_errno (error.h) throws.
check_errno_throws(rc) == rc < 0

\* check_rc (error.h) throws.
check_rc_throws(rc) == rc # 0

\* The step of the try block that throws, given what the four calls return;
\* "none" when the block reaches `return listener(loop, fd)`.
thrown_at(fd, so, b, l) ==
  IF check_errno_throws(fd) THEN "socket"
  ELSE IF check_rc_throws(so) THEN "setsockopt"
  ELSE IF check_errno_throws(b) THEN "bind"
  ELSE IF check_errno_throws(l) THEN "listen"
  ELSE "none"

\* listen, which does not suspend, is not in the middle of its loop.
ListenAtRest == heard.pc # "next"

\* listen up to the loop: getaddrinfo and its check.
listen_start(rc, n) ==
  /\ Running
  /\ heard.pc = "none"
  /\ n \in 1..MaxAddrs
  /\ heard' = IF rc # 0 THEN [heard EXCEPT !.pc = "failed"]
              ELSE [heard EXCEPT !.pc = "next", !.n = n, !.i = 1]
  /\ UNCHANGED <<reactor, closes, besides_binding>>

\* One iteration of the loop: the try block with what ::socket, ::setsockopt,
\* ::bind and ::listen return, and the catch block, which logs and continues.
listen_candidate(fd, so, b, l) ==
  /\ Running
  /\ heard.pc = "next" /\ heard.i <= heard.n
  /\ fd \in FreshResults
  /\ LET at == thrown_at(fd, so, b, l)
     IN heard' = [heard EXCEPT
          !.open = IF at = "socket" THEN @ ELSE @ \cup {fd},
          !.tried = Append(@, [addr |-> heard.i, fd |-> fd, at |-> at]),
          !.ret = IF at = "none" THEN fd ELSE @,
          !.pc = IF at = "none" THEN "returned" ELSE "next",
          !.i = IF at = "none" THEN @ ELSE @ + 1]
  /\ UNCHANGED <<reactor, closes, besides_binding>>

\* After the loop: throw std::runtime_error("try all addresses, ...").
listen_throw ==
  /\ Running
  /\ heard.pc = "next" /\ heard.i > heard.n
  /\ heard' = [heard EXCEPT !.pc = "failed"]
  /\ UNCHANGED <<reactor, closes, besides_binding>>

\* ~listener of the returned listener: close_detach when fd_ > 0.
listener_drop(j) ==
  /\ Running
  /\ heard.pc = "returned"
  /\ IF valid(heard.ret)
       THEN /\ close_detach(j)
            /\ nextId' = nextId + 1
            /\ closes' = [closes EXCEPT ![heard.ret] = @ + 1]
            /\ heard' = [heard EXCEPT !.pc = "dropped",
                                      !.open = @ \ {heard.ret}]
       ELSE /\ heard' = [heard EXCEPT !.pc = "dropped"]
            /\ UNCHANGED <<reactor, closes>>
  /\ UNCHANGED besides_binding

\* A program that calls listener::listen once and lets the listener go, over
\* the reactor.
NextL ==
  \/ \E rc \in ResolveCodes, n \in 1..MaxAddrs : listen_start(rc, n)
  \/ \E fd \in Fds \cup {-1}, so, b, l \in CallResults :
       listen_candidate(fd, so, b, l)
  \/ listen_throw
  \/ \E j \in 0..Entries : listener_drop(j)
  \/ \E outcome \in {"none", "segv", "wild"} :
       DrainStep(outcome) /\ UNCHANGED around
  \/ \E x \in inflight, res \in CallResults :
       Complete(x, res) /\ UNCHANGED around
  \/ \E j \in 0..Entries : ListenAtRest /\ PollEnter(j) /\ UNCHANGED around
  \/ \E intr \in BOOLEAN : PollWake(intr) /\ UNCHANGED around
  \/ PollEnd /\ UNCHANGED around

SpecL == Init /\ [][NextL]_vars

----------------------------------------------------------------------------
\* Poll is not on the stack.
Outside == ctx \in {"main", "wait", "throw_main"}

C2_KernelOrder ==
  /\ lastSeq = dispatched
  /\ ctx = "coro" =>
       /\ dlast.seq = dispatched
       /\ ops[dlast.token].state = "Consumed"
  /\ \A i \in 1..Len(cqw) :
       (cqw[i].seq > dispatched /\ cqw[i].token # Null)
         => ops[cqw[i].token].state # "Consumed"

\* The second entry of one drain pass is being resumed while a third
\* completion waits behind it.
C2_Witness ==
  /\ ctx = "coro"
  /\ cqe_count_ >= 2
  /\ dlast.seq = dispatched
  /\ \E i \in 1..Len(cqw) : cqw[i].seq > dispatched

\* C3: a completion entry whose token is null is skipped: poll stores no
\* result and resumes nothing through it, and goes on to count and
\* acknowledge it.
C3_NullTokenSkipped ==
  (dlast.seq > 0 /\ dlast.token = Null) => ub = "none"

\* C4: every completion entry that poll drains with a non-null token refers
\* to a bridge that is live and Suspended when poll stores the result and
\* resumes it.
C4_TokenRefersToSuspended ==
  (dlast.seq > 0 /\ dlast.token # Null) => dlast.was = "Suspended"

\* C5: a call of the slot allocator performs at most one forced flush and at
\* most two allocation attempts, and reports exhaustion only after the one
\* flush.
C5_AtMostOneFlush ==
  /\ alloc.flushes <= 1
  /\ alloc.tries <= alloc.flushes + 1
  /\ ctx \in Thrown => alloc.flushes = 1

\* An operation call found the queue full, flushed once and got its slot.
C5_Witness ==
  /\ alloc.flushes = 1
  /\ alloc.tries = 2
  /\ ctx \notin Thrown
  /\ \E b \in OpIds : ops[b].kind # "none" /\ sqes[sq_head % Entries].id = b
                      /\ Pending = 1 /\ b > Entries

\* C6: a call that ends in allocation exhaustion encodes nothing: the SQE
\* array and the count of slots handed out are unchanged, no operation or
\* bridge comes into being, and the kernel receives in that step only SQEs
\* that earlier calls encoded.
C6_ExhaustionBeforeEncode ==
  [][(ctx' \in Thrown /\ ctx \notin Thrown) =>
       /\ sqes' = sqes
       /\ sq_tail' = sq_tail
       /\ nextId' = nextId
       /\ \A b \in OpIds : /\ ops'[b].kind = ops[b].kind
                           /\ ops'[b].state = ops[b].state
       /\ \A x \in inflight' \ inflight : \E p \in Slots : sqes[p] = x
       /\ posted' = posted]_vars

\* Allocation exhaustion was reported after the forced flush, inside a
\* continuation that poll resumed.
C6_Witness ==
  /\ ctx = "throw_coro"
  /\ alloc.flushes = 1
  /\ Pending = Entries

\* C7: an operation whose kind is not in the capability set is never encoded
\* or submitted, and the call that asks for it ends the process with the ring
\* as it was: no slot taken, no forced flush, nothing handed to the kernel.
C7_UnsupportedFailsFirst ==
  /\ [](\A b \in OpIds : ops[b].sup)
  /\ [][(ctx' = "aborted" /\ ctx # "aborted") =>
          UNCHANGED <<ring, ops, nextId, alloc>>]_vars

\* An unsupported operation was requested while the submission queue was
\* full.
C7_Witness ==
  /\ ctx = "aborted"
  /\ Pending = Entries

\* C8: whenever poll dispatches an entry to a live bridge, the coroutine is
\* resumed (nothing is thrown) and the value its await yields is the result
\* code of that entry, negative codes included.
C8_AwaitedValueIsResult ==
  [][(dispatched' = dispatched + 1 /\ ub' = "none") =>
       /\ ctx' = "coro"
       /\ dlast'.res = NextCqe.res
       /\ dlast'.token = NextCqe.token
       /\ dlast'.got = dlast'.res]_vars

\* A coroutine was resumed with a negative result code.
C8_Witness ==
  /\ ctx = "coro"
  /\ dlast.res < 0
  /\ dlast.got = dlast.res

\* C9, as claimed: an operation issued by a continuation resumed during a
\* drain pass is never dispatched within that same pass.
C9_NeverSamePass ==
  dlast.seq > 0 => ~dlast.same

\* C9, amended: an operation issued during a drain pass is dispatched within
\* that pass only if the allocator's forced flush submitted it during the
\* pass.
C9_SamePassOnlyByFlush ==
  (dlast.seq > 0 /\ dlast.same) => dlast.fl

\* A continuation is running for an operation that was issued, flushed and
\* completed within the drain pass that is still going on.
C9_Witness ==
  /\ ctx = "coro"
  /\ dlast.same
  /\ dlast.fl

\* C10: a detached close leaves no bridge and no continuation behind, and
\* poll never calls resume() for its completion, whatever the result code.
C10_DetachedCloseNeverResumes ==
  /\ \A b \in OpIds : ops[b].kind = "detach" => ops[b].state = "none"
  /\ dlast.kind = "detach" => ub # "wild"

\* C11: once an explicit close() of a wrapper has completed for a descriptor,
\* with whatever result code, no step encodes another close for that
\* descriptor: not a second close() and not the destructor.
C11_CloseIsIdempotent ==
  [][\A w \in Objs, e \in {1, 2} :
       objs[w].closed[e] =>
         closes'[objs[w].own[e]] = closes[objs[w].own[e]]]_vars

\* A pipe whose close() completed, with an error for the read end, has been
\* destroyed, and each end was closed once.
C11_Witness ==
  \E w \in Objs :
    /\ objs[w].kind = "pipe" /\ objs[w].life = "dead"
    /\ objs[w].closed = <<TRUE, TRUE>> /\ objs[w].rc[1] < 0
    /\ closes[objs[w].own[1]] = 1 /\ closes[objs[w].own[2]] = 1

\* The operation has been encoded and the kernel has not consumed its SQE.
InSq(b) == ops[b].kind # "none" /\ ops[b].idx >= sq_head

\* C12, as claimed: while a bridge is suspended on an operation that has not
\* completed, the slot position its operation was encoded into is handed to
\* no other bridge.
C12_SlotOwnedUntilCompletion ==
  \A a \in OpIds, b \in OpIds :
    (a # b /\ ops[a].state = "Suspended" /\ ops[b].kind # "none")
      => ops[a].idx % Entries # ops[b].idx % Entries

\* C12, amended: a slot position belongs to one operation from its encoding
\* until the kernel consumes the SQE: no two unconsumed operations share a
\* position and each one's slot still holds what was encoded for it.
C12_SlotOwnedUntilSubmitted ==
  /\ \A a \in OpIds, b \in OpIds :
       (a # b /\ InSq(a) /\ InSq(b))
         => ops[a].idx % Entries # ops[b].idx % Entries
  /\ \A b \in OpIds :
       InSq(b) => /\ sqes[ops[b].idx % Entries].id = b
                  /\ ops[b].kind = "await"
                       => sqes[ops[b].idx % Entries].token = b

\* A slot position has been handed out again while the operation encoded
\* into it before is still with the kernel and its bridge is suspended.
C12_Witness ==
  \E a \in OpIds, b \in OpIds :
    /\ a # b /\ ops[a].state = "Suspended" /\ ops[b].state = "Suspended"
    /\ ops[a].idx % Entries = ops[b].idx % Entries
    /\ InSq(b) /\ \E x \in inflight : x.id = a

C14_ResumedOnlyInDrain ==
  [][/\ \A b \in OpIds :
          (ops'[b].state = "Consumed" /\ ops[b].state # "Consumed") =>
            /\ ctx = "loop" /\ ctx' = "coro"
            /\ NextCqe.token = b
            /\ dispatched' = dispatched + 1
     /\ (alloc' # alloc \/ nextId' # nextId \/ sq_tail' # sq_tail) =>
          /\ \A b \in OpIds : ops'[b].state = "Consumed"
                                 => ops[b].state = "Consumed"
          /\ dispatched' = dispatched
          /\ dlast' = dlast]_vars

\* Inside a poll, a resumed continuation has issued an operation that the
\* forced flush of a later call submitted, and its bridge is still suspended.
C14_Witness ==
  /\ ctx = "coro"
  /\ alloc.flushes = 1
  /\ \E b \in OpIds : ops[b].inpass /\ ops[b].fl /\ ops[b].state = "Suspended"

Held(b, set) == \E x \in set : x.id = b

\* C16: an operation is encoded once and submitted once: it enters the
\* submission queue only when it is issued, it goes to the kernel only by
\* leaving the queue, and it never goes back; dispatching a negative result
\* encodes nothing and submits nothing.
C16_SubmittedOnce ==
  [][/\ \A b \in OpIds :
          /\ (InSq(b)' /\ ~InSq(b)) => ops[b].kind = "none"
          /\ (Held(b, inflight') /\ ~Held(b, inflight))
               => (InSq(b) /\ ~InSq(b)')
          /\ (InSq(b) /\ ~InSq(b)') => Held(b, inflight')
     /\ (dispatched' = dispatched + 1 /\ NextCqe.res < 0) =>
          UNCHANGED <<sqes, sq_head, sq_tail, inflight, nextId>>]_vars

\* A coroutine has been resumed with a negative result, and nothing is
\* pending, in flight or waiting in the completion queue.
C16_Witness ==
  /\ ctx = "coro"
  /\ dlast.res < 0
  /\ ops[dlast.token].state = "Consumed"
  /\ Pending = 0 /\ inflight = {} /\ Len(cqw) = cqe_count_

\* C17: when a wrapper has been destroyed, a close has been encoded for every
\* descriptor it owned, 0 included.
C17_EveryHandleReleased ==
  \A w \in Objs, e \in {1, 2} :
    (objs[w].life = "dead" /\ objs[w].own[e] >= 0)
      => closes[objs[w].own[e]] >= 1

\* The wrapper object exists: constructed and its destructor not yet over.
Alive(w) == objs[w].life \in {"live", "moved", "dying"}

\* C18: no descriptor is held by two wrapper objects at a time; a moved-from
\* object holds -1 at every end, and closing or destroying it encodes no
\* close.
C18_OneOwner ==
  /\ [](\A d \in Fds :
         Cardinality({p \in Objs \X {1, 2} :
                        Alive(p[1]) /\ objs[p[1]].fd_[p[2]] = d}) <= 1)
  /\ [](\A w \in Objs :
         objs[w].life = "moved" => objs[w].fd_ = <<-1, -1>>)
  /\ [][\A w \in Objs :
          (objs[w].life = "moved" /\ objs'[w] # objs[w])
            => /\ closes' = closes
               /\ UNCHANGED <<sqes, sq_tail, nextId>>]_vars

\* A moved-from object has been destroyed while the object it was moved
\* into holds the descriptor, for which no close has been encoded.
C18_Witness ==
  \E w \in Objs, v \in Objs :
    /\ objs[w].life = "dead" /\ objs[w].own = <<-1, -1>>
    /\ objs[v].life = "live" /\ objs[v].fd_[1] > 0
    /\ objs[v].own = objs[v].fd_
    /\ closes[objs[v].fd_[1]] = 0

\* C19: once the constructor has returned, no step of the reactor (operation
\* method, slot allocation, submission, poll, close) changes supported_ops_
\* or supported_features_.
C19_CapabilitiesFixed ==
  [][ctx \notin {"new", "ctor"} => UNCHANGED caps]_vars

\* A constructed reactor that has allocated slots, flushed the queue and
\* dispatched a completion, with the capability set the constructor built.
C19_Witness ==
  /\ boot.probe # Null
  /\ dispatched > 0
  /\ alloc.flushes > 0
  /\ \E b \in OpIds : ops[b].state = "Consumed"
  /\ caps = <<supported_ops, KernelFeatures>>

\* The kernel refused the queue pair or the probe.
SetupFailed == boot.init < 0 \/ boot.probe = Null

\* C20: when io_uring_queue_init_params or io_uring_get_probe_ring fails, the
\* constructor throws to its caller, and from a constructor that threw no
\* step follows: there is no event_loop to call an operation or poll on.
C20_FailedSetupThrows ==
  /\ [](ctx \notin {"new", "ctor"} /\ SetupFailed => ctx = "ctor_threw")
  /\ [][ctx # "ctor_threw"]_vars

\* The queue pair was created, the probe failed: the constructor has released
\* the queue pair and thrown.
C20_Witness ==
  /\ ctx = "ctor_threw"
  /\ boot.init = 0
  /\ boot.probe = Null
  /\ boot.ring_ = "exited"

\* C21: a failure raised inside a coroutine reaches the owner of a driven
\* task when the owner takes the result of the finished task, and nobody
\* else; a detached task that fails ends without ending the process, its
\* frame is released, and no party sees its outcome.
C21_FailureSurfacedOrSwallowed ==
  /\ [](\A t \in Tasks :
          /\ tasks[t].seen # "none" =>
               /\ tasks[t].mode = "driven"
               /\ tasks[t].seen = IF tasks[t].failed THEN "failure" ELSE "value"
          /\ tasks[t].mode = "detached" =>
               /\ tasks[t].seen = "none"
               /\ tasks[t].st = "done" => tasks[t].frame = "released")
  /\ [][\A t \in Tasks :
          (tasks'[t].mode = "detached" /\ tasks'[t].st = "done"
           /\ tasks[t].st # "done")
            => (ub' = "none" /\ ctx' \in {"main", "coro"})]_vars

\* One task failed after it was detached, while poll had resumed it; the
\* owner of another has taken that task's failure.
C21_Witness ==
  \E t \in Tasks, u \in Tasks :
    /\ tasks[t].mode = "detached" /\ tasks[t].failed
    /\ tasks[t].frame = "released" /\ dispatched > 0
    /\ tasks[u].mode = "driven" /\ tasks[u].seen = "failure"

C23_EchoUnchanged ==
  /\ net.out = Prefix(net.sent, Len(net.out))
  /\ (~net.shut /\ net.pc = "torecv") => net.out = Received

C25_NoSlotSubmittedCreated ==
  /\ [](\A x \in inflight : x.token = x.id)
  /\ [][\A x \in inflight' \ inflight : ops[x.id].state = "Suspended"]_vars

C27_DispatchedOnce ==
  /\ [][dispatched' # dispatched => lastSeq' > lastSeq]_vars
  /\ [](dlast.was # "Consumed")

\* C28: when the first allocation attempt finds the queue full, get_sqe
\* acknowledges the drained entries (with the queue still full and one attempt
\* made), has reset the count to zero before it submits, every entry
\* dispatched so far being acknowledged by then, and returns or throws after
\* exactly one more attempt, made after the submission.
C28_AllocatorOrder ==
  /\ [][gs.pc # "advanced" /\ gs'.pc = "advanced"
          => /\ gs.tries = 1
             /\ Pending = Entries
             /\ inflight' = inflight
             /\ cq_khead' = cq_khead + cqe_count_]_vars
  /\ [][gs.pc # "submitted" /\ gs'.pc = "submitted"
          => /\ cqe_count_ = 0
             /\ cq_khead = dispatched
             /\ gs.tries = 1]_vars
  /\ [][InGetSqe /\ ~InGetSqe'
          => /\ gs.pc = "submitted"
             /\ alloc'.tries = 2
             /\ cqe_count_' = 0
             /\ inflight' = inflight]_vars
  /\ [](alloc.tries <= 2 /\ gs.tries <= 1)

\* A get_sqe call made by a continuation inside the drain pass has found the
\* queue full, acknowledged what was dispatched, submitted and got its slot
\* at the second attempt.
C28_Witness ==
  /\ gs = NoGs
  /\ alloc = [flushes |-> 1, tries |-> 2]
  /\ ctx = "coro"
  /\ cqe_count_ = 0
  /\ dispatched > 0
  /\ cq_khead = dispatched
  /\ \E b \in OpIds : ops[b].state = "Suspended" /\ ops[b].idx = sq_tail - 1

\* C29: once a bridge is Suspended its token is recorded for the operation:
\* the SQE of the operation, where the kernel has not consumed it, what the
\* kernel holds for it and the completion entry posted for it all carry the
\* bridge's address, so that dispatching the completion finds the bridge's
\* continuation.
C29_CompletionFindsContinuation ==
  \A b \in OpIds :
    ops[b].state = "Suspended"
      => /\ InSq(b) => sqes[ops[b].idx % Entries].token = b
         /\ \A x \in inflight : x.id = b => x.token = b
         /\ \A i \in 1..Len(cqw) : cqw[i].id = b => cqw[i].token = b

\* C30: a constructor that threw after io_uring_queue_init_params succeeded
\* has released the queue pair: no failed construction leaves it allocated.
C30_FailedSetupReleases ==
  ctx = "ctor_threw" => boot.ring_ # "open"

\* C31: once the constructor has returned, an opcode is in supported_ops_
\* exactly when the probe lists it with the IO_URING_OP_SUPPORTED bit set,
\* and a feature is in supported_features_ exactly when the bit of its name
\* is set in params.features.
C31_CapabilitiesAsReported ==
  ctx \notin {"new", "ctor", "ctor_threw"}
    => /\ \A op \in Ops :
            op \in supported_ops_
              <=> \E i \in 1..Len(kern.probe) :
                    /\ kern.probe[i].op = op
                    /\ kern.probe[i].flags \in {1, 3}
       /\ \A f \in Features :
            f \in supported_features_ <=> ("IORING_FEAT_" \o f) \in kern.features

\* The constructor has returned on a kernel whose probe is shorter than the
\* opcode list, marks a listed opcode unsupported and reports some features
\* but not all; the reactor has gone on to dispatch a completion.
C31_Witness ==
  /\ ctx = "coro"
  /\ Len(kern.probe) < Len(OpOrder)
  /\ \E i \in 1..Len(kern.probe) : kern.probe[i].flags = 0
  /\ supported_features_ # {} /\ supported_features_ # Features
  /\ "CLOSE" \in supported_ops_ /\ "TEE" \notin supported_ops_

\* C32: when a wrapper is closed again or destroyed while its close() is
\* suspended, at most one close operation is encoded for the descriptor.
C32_OneCloseWhileClosing ==
  \A d \in Fds : closes[d] <= 1

\* C33: a factory whose open or accept completed with a negative result
\* throws: it constructs no wrapper object, and no close is encoded then or
\* later; with a non-negative result it goes on to return an object that
\* owns exactly that descriptor, for which no close has been encoded.
C33_FactoryFailsOrOwns ==
  /\ [][made.pc = "resumed"
          => IF made.fd < 0
               THEN made'.pc = "failed" /\ UNCHANGED <<objs, closes, nextId>>
               ELSE made'.pc = "built"]_vars
  /\ [](made.pc = "failed"
          => /\ made.fd < 0
             /\ \A w \in Objs : objs[w].life = "none"
             /\ \A d \in Fds : closes[d] = 0
             /\ nextId = made.op + 1)
  /\ [][made.pc = "moved" /\ made'.pc = "returned"
          => /\ made.fd >= 0
             /\ objs'[made.ret].life = "live"
             /\ objs'[made.ret].fd_ = <<made.fd, -1>>
             /\ objs'[made.ret].own = <<made.fd, -1>>
             /\ objs'[made.tmp].life = "dead"
             /\ \A d \in Fds : closes'[d] = 0]_vars

\* The connect operations that are encoded and whose coroutine has not been
\* resumed.
Connecting == {b \in OpIds : ops[b].kind = "await" /\ ops[b].state = "Suspended"}

C35_ListenLeaksNothing ==
  heard.pc \in {"next", "returned", "failed"}
    => heard.open \subseteq (IF heard.pc = "returned" THEN {heard.ret} ELSE {})

\* Claim C36: cqe_count_ is zero whenever no drain pass is in progress: once
\* the constructor has returned, on entry to poll (up to the return of
\* io_uring_submit_and_wait) and after poll has returned, so that a forced
\* flush of get_sqe outside a drain pass acknowledges zero entries.
C36_ZeroOutsideDrain == ctx \in {"main", "wait"} => cqe_count_ = 0

====
